---- MODULE Spec2Model ----
(***************************************************************************)
(* State-machine model of LLMNodeGraph_AG:                                 *)
(*   - services/llm_queue_manager.py  (LLMQueueManager, the scheduler)     *)
(*   - services/worker.py             (LLMWorker, one thread per task)     *)
(*   - core/provider_manager.py       (ProviderManager)                    *)
(*   - core/graph.py                  (Graph, mark_dirty, merge, load)     *)
(*   - core/command.py, core/command_manager.py  (undo / redo)             *)
(*   - core/assembler.py              (ContextAssembler)                   *)
(*   - core/tab_controller.py         (TabController)                      *)
(*   - ui/editor_tab.py, ui/main_window.py, ui/node_item.py  (handlers)    *)
(* The specifications share the module: Spec drives the scheduler and its  *)
(* workers, GraphSpec the graph store, CmdSpec the command manager over a  *)
(* loaded graph, StackSpec the command manager of a new tab, AsmSpec the   *)
(* context assembler, LoadSpec the loading of a file, ProviderSpec the     *)
(* provider settings, TabSpec the tab controller, LiveSpec the scheduler   *)
(* of a running application under fair threads and signal delivery.        *)
(***************************************************************************)
EXTENDS Integers, Sequences, FiniteSets, TLC

\* ------------------------------------------------------------------------
\* Bounds
\* ------------------------------------------------------------------------
\* number of submissions the scheduler accepts in one behaviour
MaxTasks == 3
\* number of undelivered worker signals at which a worker still in its request
\* is not scheduled to complete on its own
MaxPending == 1
\* number of links ever created in one behaviour of the graph store
MaxLinks == 3

\* number of commands handed to CommandManager.execute in one behaviour
MaxCmds == 1
\* number of commands executed in one behaviour of a new tab's manager
MaxStackCmds == 3
\* largest max_stack_size a CommandManager is given
MaxStackSize == 2
\* number of Node objects constructed in one behaviour of the command manager
MaxObjs == 6
\* number of links created in one behaviour of the command manager
MaxCmdLinks == 6
\* number of nodes selected at once
MaxSelected == 3

\* CommandManager.__init__: max_stack_size = 50
DefaultMaxStackSize == 50

\* ------------------------------------------------------------------------
\* Values
\* ------------------------------------------------------------------------
NodeIds == {"A", "B", "C"}

\* worker_map.get(node_id) -> None, "provider not in active_workers"
NoWorker == 0

\* model names are character sequences, so that str.startswith is computed
Llama3 == <<"l", "l", "a", "m", "a", "3">>

\* the config dicts built by the run handler: node.config.provider / .model
Configs ==
    { [provider |-> "Ollama", model |-> Llama3],
      [provider |-> "Default", model |-> Llama3] }

\* node.config of each node when its run button is pressed: the user switches
\* node B between the two providers, nodes A and C stay on "Ollama"
ConfigsOf(node_id) ==
    IF node_id = "B" THEN Configs ELSE { c \in Configs : c.provider = "Ollama" }

\* keys of the defaultdict `queues` and of `active_workers`
ProviderKeys == { c.provider : c \in Configs }

\* settings.value("default_provider", "Ollama")
DefaultProvider == "Ollama"

\* ------------------------------------------------------------------------
\* State
\* ------------------------------------------------------------------------
VARIABLES
    \* LLMQueueManager
    queues,          \* provider -> sequence of queued tasks (front first)
    active_workers,  \* provider -> worker id, or NoWorker
    worker_map,      \* node id  -> worker id, or NoWorker
    \* LLMWorker objects, by worker id
    workers,         \* worker id -> [node_id, config, provider, is_cancelled, state]
    signals,         \* worker signals posted to the manager's thread, undelivered
    \* history
    nextTicket,      \* accepted tasks are numbered in order of submission (their
                     \* ticket, also the identity of their worker): the next number
    waiting,         \* tasks queued on acceptance that were neither started since
                     \* nor taken from their queue by cancel_task or shutdown
    \* Graph
    nodes,           \* node id -> Node, for the nodes of the graph
    links,           \* Graph.links in dict (insertion) order
    nextLink,        \* next fresh link id
    \* CommandManager and the Node objects its commands hold
    undo_stack,      \* CommandManager.undo_stack, oldest first
    redo_stack,      \* CommandManager.redo_stack, oldest first
    max_stack_size,  \* CommandManager.max_stack_size
    heap,            \* object number -> Node, for the Node objects that are
                     \* held by a command while graph.nodes does not hold them
    nextObj,         \* number of the next Node object to be constructed
    executed,        \* number of commands handed to CommandManager.execute
    \* SettingsManager and the file dialogs
    settings,        \* SettingsManager.settings: key -> value, for the keys set
    file_data,       \* json.load(f) of the file the graph is loaded from
    \* TabController
    tabs,            \* TabController._tabs in dict (insertion) order
    active_tab_id,   \* TabController._active_tab_id, or NoTab
    nextTab          \* number of the next tab to be created

schedVars == <<queues, active_workers, worker_map, workers, signals,
               nextTicket, waiting>>
graphVars == <<nodes, links, nextLink>>
cmdVars == <<undo_stack, redo_stack, max_stack_size, heap, nextObj, executed>>
appVars == <<settings, file_data>>
tabVars == <<tabs, active_tab_id, nextTab>>
vars == <<queues, active_workers, worker_map, workers, signals,
          nextTicket, waiting, nodes, links, nextLink,
          undo_stack, redo_stack, max_stack_size, heap, nextObj, executed,
          settings, file_data, tabs, active_tab_id, nextTab>>

\* ------------------------------------------------------------------------
\* SettingsManager, ProviderManager
\* ------------------------------------------------------------------------
\* settings.value(key, default)
settings_value(key, default) ==
    IF key \in DOMAIN settings THEN settings[key] ELSE default

\* str.startswith
StartsWith(s, p) ==
    /\ Len(s) >= Len(p)
    /\ SubSeq(s, 1, Len(p)) = p

Gpt == <<"g", "p", "t">>
O1 == <<"o", "1">>
Gemini == <<"g", "e", "m", "i", "n", "i">>
Openrouter == <<"o", "p", "e", "n", "r", "o", "u", "t", "e", "r">>

\* mutant: the openrouter prefix is not looked for
resolve_effective_provider_no_openrouter(config_provider, config_model) ==
    LET provider == IF config_provider = "" THEN "Default" ELSE config_provider
    IN  IF provider # "Default" THEN provider
        ELSE IF config_model = <<>>
             THEN settings_value("default_provider", DefaultProvider)
        ELSE IF StartsWith(config_model, Gpt) \/ StartsWith(config_model, O1)
             THEN "OpenAI"
        ELSE IF StartsWith(config_model, Gemini) THEN "Gemini"
        ELSE "Ollama"

\* a provider that is None or "" counts as "Default"
resolve_effective_provider(config_provider, config_model) ==
    LET provider == IF config_provider = "" THEN "Default" ELSE config_provider
    IN  IF provider # "Default" THEN provider
        ELSE IF config_model = <<>>
             THEN settings_value("default_provider", DefaultProvider)
        ELSE IF StartsWith(config_model, Gpt) \/ StartsWith(config_model, O1)
             THEN "OpenAI"
        ELSE IF StartsWith(config_model, Gemini) THEN "Gemini"
        ELSE IF StartsWith(config_model, Openrouter) THEN "OpenRouter"
        ELSE "Ollama"

\* the default model names of the settings
Gpt4o == <<"g", "p", "t", "-", "4", "o">>
GeminiFlash == <<"g", "e", "m", "i", "n", "i", "-", "1", ".", "5", "-", "f", "l", "a", "s", "h">>
OpenrouterModel == <<"o", "p", "e", "n", "a", "i", "/", "g", "p", "t", "-", "3", ".", "5", "-", "t", "u", "r", "b", "o">>

\* ProviderManager.resolve_display_text: f"{display_provider}/{display_model}"
\* kept as its two parts, the model part being left out when it is empty
resolve_display_text(config_provider, config_model) ==
    LET provider == IF config_provider = "" THEN "Default" ELSE config_provider
        display_provider ==
            IF provider # "Default" THEN provider
            ELSE IF config_model = <<>>
                 THEN settings_value("default_provider", DefaultProvider)
            ELSE resolve_effective_provider("Default", config_model)
        display_model ==
            IF provider = "Default" /\ config_model = <<>>
            THEN IF display_provider = "OpenAI"
                 THEN settings_value("openai_model", Gpt4o)
                 ELSE IF display_provider = "Gemini"
                 THEN settings_value("gemini_model", GeminiFlash)
                 ELSE IF display_provider = "OpenRouter"
                 THEN settings_value("openrouter_model", OpenrouterModel)
                 ELSE settings_value("ollama_model", Llama3)
            ELSE config_model
    IN  IF display_model # <<>> THEN <<display_provider, display_model>>
        ELSE <<display_provider>>

\* NodeItem.resolve_effective_provider, on the node's config
NodeItem_resolve_effective_provider(config) ==
    LET config_provider == IF config.provider = "" THEN "Default"
                           ELSE config.provider
    IN  IF config_provider # "Default" THEN config_provider
        ELSE IF config.model = <<>>
             THEN settings_value("default_provider", DefaultProvider)
        ELSE IF StartsWith(config.model, Gpt) \/ StartsWith(config.model, O1)
             THEN "OpenAI"
        ELSE IF StartsWith(config.model, Gemini) THEN "Gemini"
        ELSE "Ollama"

\* LLMWorker._async_run: the _call_* coroutine the request goes to, by the
\* provider it talks to
LLMWorker_async_run(config) ==
    IF config.provider \in {"OpenAI", "Gemini", "OpenRouter", "Ollama"}
    THEN config.provider
    ELSE IF StartsWith(config.model, Gpt) \/ StartsWith(config.model, O1)
         THEN "OpenAI"
    ELSE IF StartsWith(config.model, Gemini) THEN "Gemini"
    ELSE "Ollama"

\* The manager's fields and what a handler touches, as one value that the
\* handler's statements transform in program order.  `emitted` collects the
\* Qt signals the handler emits.
SchedState ==
    [queues |-> queues, active_workers |-> active_workers,
     worker_map |-> worker_map, workers |-> workers, signals |-> signals,
     emitted |-> <<>>, waiting |-> waiting]

Signal(name, node_id) == [sig |-> name, node_id |-> node_id]

\* ------------------------------------------------------------------------
\* LLMQueueManager
\* ------------------------------------------------------------------------
QueueNodeIds(q) == { q[i].node_id : i \in 1..Len(q) }

\* mutant: the queues are not searched
is_node_running_or_queued_map_only(S, node_id) ==
    S.worker_map[node_id] # NoWorker

is_node_running_or_queued(S, node_id) ==
    \/ S.worker_map[node_id] # NoWorker
    \/ \E p \in ProviderKeys : node_id \in QueueNodeIds(S.queues[p])

\* LLMWorker(node_id, prompt, config); worker.start(); task_started.emit
start_worker(S, node_id, config, provider, ticket) ==
    [S EXCEPT
        !.workers = ticket :> [node_id |-> node_id, config |-> config,
                               provider |-> provider, is_cancelled |-> FALSE,
                               state |-> "running"] @@ @,
        !.active_workers[provider] = ticket,
        !.worker_map[node_id] = ticket,
        !.waiting = { t \in @ : t.ticket # ticket },
        !.emitted = Append(@, Signal("task_started", node_id))]

\* mutant: pop() instead of popleft()
process_next_in_queue_pop_right(S, provider) ==
    IF S.queues[provider] # <<>>
    THEN LET q == S.queues[provider]
             next_task == q[Len(q)]
         IN  start_worker([S EXCEPT !.queues[provider] = SubSeq(q, 1, Len(q) - 1)],
                          next_task.node_id, next_task.config, provider,
                          next_task.ticket)
    ELSE S

process_next_in_queue(S, provider) ==
    IF S.queues[provider] # <<>>
    THEN LET next_task == Head(S.queues[provider])
         IN  start_worker([S EXCEPT !.queues[provider] = Tail(@)],
                          next_task.node_id, next_task.config, provider,
                          next_task.ticket)
    ELSE S


\* mutant: task_queued is not emitted
submit_task_no_queued_signal(S, node_id, config, ticket) ==
    LET provider == config.provider
    IN  IF is_node_running_or_queued(S, node_id) THEN S
        ELSE IF S.active_workers[provider] = NoWorker
             THEN start_worker(S, node_id, config, provider, ticket)
        ELSE [S EXCEPT
                !.queues[provider] =
                    Append(@, [node_id |-> node_id, config |-> config,
                               ticket |-> ticket]),
                !.waiting = @ \cup {[ticket |-> ticket, provider |-> provider]}]

submit_task(S, node_id, config, ticket) ==
    LET provider == config.provider
    IN  IF is_node_running_or_queued(S, node_id) THEN S
        ELSE IF S.active_workers[provider] = NoWorker
             THEN start_worker(S, node_id, config, provider, ticket)
        ELSE [S EXCEPT
                !.queues[provider] =
                    Append(@, [node_id |-> node_id, config |-> config,
                               ticket |-> ticket]),
                !.waiting = @ \cup {[ticket |-> ticket, provider |-> provider]},
                !.emitted = Append(@, Signal("task_queued", node_id))]

\* index of the first queue entry of node_id, 0 when there is none
QueueIndex(q, node_id) ==
    IF node_id \in QueueNodeIds(q)
    THEN CHOOSE i \in 1..Len(q) :
            /\ q[i].node_id = node_id
            /\ \A j \in 1..(i - 1) : q[j].node_id # node_id
    ELSE 0

\* mutant: the head of the queue is popped, whatever entry was found
QueueDelete_pops_head(q, i) == Tail(q)

\* del queue[found_idx]
QueueDelete(q, i) == SubSeq(q, 1, i - 1) \o SubSeq(q, i + 1, Len(q))

\* mutant: the worker_map entry of the cancelled node is kept
cancel_task_keeps_worker_map(S, node_id) ==
    LET activeFor == { p \in ProviderKeys :
                         /\ S.active_workers[p] # NoWorker
                         /\ S.workers[S.active_workers[p]].node_id = node_id }
        queuedIn == { p \in ProviderKeys : node_id \in QueueNodeIds(S.queues[p]) }
    IN  IF activeFor # {}
        THEN LET provider_to_free == CHOOSE p \in activeFor : TRUE
                 w == S.active_workers[provider_to_free]
             IN  process_next_in_queue(
                    [S EXCEPT !.workers[w].is_cancelled = TRUE,
                              !.active_workers[provider_to_free] = NoWorker],
                    provider_to_free)
        ELSE IF queuedIn # {}
        THEN LET provider == CHOOSE p \in queuedIn : TRUE
                 found_idx == QueueIndex(S.queues[provider], node_id)
             IN  [S EXCEPT
                    !.queues[provider] = QueueDelete(@, found_idx),
                    !.waiting =
                        { t \in @ : t.ticket # S.queues[provider][found_idx].ticket }]
        ELSE S

cancel_task(S, node_id) ==
    LET activeFor == { p \in ProviderKeys :
                         /\ S.active_workers[p] # NoWorker
                         /\ S.workers[S.active_workers[p]].node_id = node_id }
        queuedIn == { p \in ProviderKeys : node_id \in QueueNodeIds(S.queues[p]) }
    IN  IF activeFor # {}
        THEN LET provider_to_free == CHOOSE p \in activeFor : TRUE
                 w == S.active_workers[provider_to_free]
             IN  process_next_in_queue(
                    [S EXCEPT !.workers[w].is_cancelled = TRUE,
                              !.active_workers[provider_to_free] = NoWorker,
                              !.worker_map[node_id] = NoWorker],
                    provider_to_free)
        ELSE IF queuedIn # {}
        THEN LET provider == CHOOSE p \in queuedIn : TRUE
                 found_idx == QueueIndex(S.queues[provider], node_id)
             IN  [S EXCEPT
                    !.queues[provider] = QueueDelete(@, found_idx),
                    !.waiting =
                        { t \in @ : t.ticket # S.queues[provider][found_idx].ticket }]
        ELSE S

\* QThread.wait() on worker w: the call returns once run() has returned.  A
\* worker that is still in its request ends it with `outcome`: it emits
\* finished, emits error, or (cancelled) returns without a signal.
WaitWorker(S, w, outcome) ==
    IF S.workers[w].state = "running"
    THEN [S EXCEPT
            !.workers[w].state = "exited",
            !.signals = IF outcome = "silent" THEN @
                        ELSE @ \cup {[kind |-> outcome,
                                      node_id |-> S.workers[w].node_id,
                                      w |-> w]}]
    ELSE S

\* mutant: the slot is released but the queue is not looked at
cleanup_worker_no_drain(S, node_id, outcome) ==
    LET worker == S.worker_map[node_id]
        found == { p \in ProviderKeys : S.active_workers[p] = worker }
    IN  IF worker = NoWorker THEN S
        ELSE LET S1 == [S EXCEPT !.worker_map[node_id] = NoWorker]
             IN  IF found = {} THEN S1
                 ELSE LET provider_found == CHOOSE p \in found : TRUE
                      IN  WaitWorker(
                             [S1 EXCEPT !.active_workers[provider_found] = NoWorker],
                             worker, outcome)

cleanup_worker(S, node_id, outcome) ==
    LET worker == S.worker_map[node_id]
        found == { p \in ProviderKeys : S.active_workers[p] = worker }
    IN  IF worker = NoWorker THEN S
        ELSE LET S1 == [S EXCEPT !.worker_map[node_id] = NoWorker]
             IN  IF found = {} THEN S1
                 ELSE LET provider_found == CHOOSE p \in found : TRUE
                      IN  process_next_in_queue(
                             WaitWorker(
                                [S1 EXCEPT !.active_workers[provider_found] = NoWorker],
                                worker, outcome),
                             provider_found)

on_worker_finished(S, node_id, outcome) ==
    LET worker == S.worker_map[node_id]
    IN  IF worker = NoWorker THEN S
        ELSE IF S.workers[worker].is_cancelled THEN S
        ELSE cleanup_worker(
                [S EXCEPT !.emitted = Append(@, Signal("task_finished", node_id))],
                node_id, outcome)

on_worker_error(S, node_id, outcome) ==
    LET worker == S.worker_map[node_id]
    IN  IF worker # NoWorker /\ S.workers[worker].is_cancelled THEN S
        ELSE cleanup_worker(
                [S EXCEPT !.emitted = Append(@, Signal("task_failed", node_id))],
                node_id, outcome)

\* worker.cancel(); worker.quit(); worker.wait() for every active worker; a
\* worker in `errs` ends its request with an exception, the others silently
shutdown(S, errs) ==
    LET active == { S.active_workers[p] : p \in ProviderKeys } \ {NoWorker}
        ended(w) == IF S.workers[w].state = "running" /\ w \in errs
                    THEN {[kind |-> "error", node_id |-> S.workers[w].node_id,
                           w |-> w]}
                    ELSE {}
    IN  [S EXCEPT
            !.queues = [p \in ProviderKeys |-> <<>>],
            !.waiting = {},
            !.workers = [w \in DOMAIN S.workers |->
                            IF w \in active
                            THEN [S.workers[w] EXCEPT !.is_cancelled = TRUE,
                                                      !.state = "exited"]
                            ELSE S.workers[w]],
            !.signals = @ \cup UNION { ended(w) : w \in active }]


\* ------------------------------------------------------------------------
\* Graph
\* ------------------------------------------------------------------------
\* str values are character sequences: len, slices and concatenation are
\* computed on them
Outputs == { <<>>, <<"o", "u", "t">> }

\* Node.height default
NodeHeight == 450

\* NodeConfig(): the dataclass defaults
NewNodeConfig ==
    [model |-> Gpt4o, provider |-> "Default", max_tokens |-> 16000,
     trace_depth |-> 2]

\* a list object in input_links that no other Node object holds
OwnList == 0

\* Node(): the dataclass defaults.  `obj` is the identity of the Python
\* object (0 where no command refers to it) and `input_list` the identity of
\* the list object in input_links; width and the text heights are carried
\* through unread and left out.
NewNode ==
    [obj |-> 0, input_list |-> OwnList, config |-> NewNodeConfig, prompt |-> <<>>,
     cached_output |-> <<>>, is_dirty |-> FALSE, name |-> <<>>,
     input_links |-> <<>>, pos_x |-> 0, pos_y |-> 0, height |-> NodeHeight]

GraphState == [nodes |-> nodes, links |-> links]

SeqElems(s) == { s[i] : i \in 1..Len(s) }

\* list.remove(x): drops the first occurrence
ListRemove(s, x) ==
    IF x \in SeqElems(s)
    THEN LET i == CHOOSE k \in 1..Len(s) :
                    s[k] = x /\ \A j \in 1..(k - 1) : s[j] # x
         IN  SubSeq(s, 1, i - 1) \o SubSeq(s, i + 1, Len(s))
    ELSE s

\* [l.target_id for l in links.values() if l.source_id == node_id]
RECURSIVE Children(_, _)
Children(ls, node_id) ==
    IF ls = <<>> THEN <<>>
    ELSE IF Head(ls).source_id = node_id
         THEN <<Head(ls).target_id>> \o Children(Tail(ls), node_id)
    ELSE Children(Tail(ls), node_id)

\* node.is_dirty = True; where the graph carries a `writes` log, the
\* assignment is entered in it
SetDirty(G, node_id) ==
    LET G1 == [G EXCEPT !.nodes[node_id].is_dirty = TRUE]
    IN  IF "writes" \in DOMAIN G1
        THEN [G1 EXCEPT !.writes = Append(@, node_id)]
        ELSE G1

RECURSIVE mark_dirty(_, _)
RECURSIVE MarkDirtyEach(_, _)

\* mutant: an already dirty node is assigned again before returning
mark_dirty_assigns_again(G, node_id) ==
    IF node_id \notin DOMAIN G.nodes THEN G
    ELSE IF G.nodes[node_id].is_dirty THEN SetDirty(G, node_id)
    ELSE MarkDirtyEach(SetDirty(G, node_id), Children(G.links, node_id))

mark_dirty(G, node_id) ==
    IF node_id \notin DOMAIN G.nodes THEN G
    ELSE IF G.nodes[node_id].is_dirty THEN G
    ELSE MarkDirtyEach(SetDirty(G, node_id), Children(G.links, node_id))

\* for child_id in children: self.mark_dirty(child_id)
MarkDirtyEach(G, children) ==
    IF children = <<>> THEN G
    ELSE MarkDirtyEach(mark_dirty(G, Head(children)), Tail(children))

add_node(G, node_id, node) ==
    [G EXCEPT !.nodes = [n \in DOMAIN @ \cup {node_id} |->
                            IF n = node_id THEN node ELSE @[n]]]

LinkIds(ls) == { ls[i].id : i \in 1..Len(ls) }
LinkById(ls, link_id) == ls[CHOOSE i \in 1..Len(ls) : ls[i].id = link_id]

\* input_links.append(x) / .remove(x) change the list object in place: the
\* change shows in every Node object that holds the same list, in the graph
\* or detached from it (G.heap, where the graph is a command's)
SetInputLinks(G, node_id, value) ==
    LET list == G.nodes[node_id].input_list
        Holds(node) == list # OwnList /\ node.input_list = list
        G1 == [G EXCEPT !.nodes =
                  [n \in DOMAIN @ |->
                     IF n = node_id \/ Holds(@[n])
                     THEN [@[n] EXCEPT !.input_links = value] ELSE @[n]]]
    IN  IF "heap" \in DOMAIN G1
        THEN [G1 EXCEPT !.heap =
                [o \in DOMAIN @ |->
                   IF Holds(@[o])
                   THEN [@[o] EXCEPT !.input_links = value] ELSE @[o]]]
        ELSE G1

remove_link(G, link_id) ==
    IF link_id \in LinkIds(G.links)
    THEN LET target_id == LinkById(G.links, link_id).target_id
             G1 == [G EXCEPT !.links = SelectSeq(@, LAMBDA l : l.id # link_id)]
         IN  IF target_id \in DOMAIN G1.nodes
             THEN mark_dirty(
                    SetInputLinks(G1, target_id,
                                  ListRemove(G1.nodes[target_id].input_links,
                                             link_id)),
                    target_id)
             ELSE G1
    ELSE G

\* for l_id in links_to_remove: self.remove_link(l_id)
RECURSIVE RemoveLinks(_, _)
RemoveLinks(G, link_ids) ==
    IF link_ids = <<>> THEN G
    ELSE RemoveLinks(remove_link(G, Head(link_ids)), Tail(link_ids))

\* [l_id for l_id, l in links.items() if l.source_id == n or l.target_id == n]
RECURSIVE LinksTouching(_, _)
LinksTouching(ls, node_id) ==
    IF ls = <<>> THEN <<>>
    ELSE IF Head(ls).source_id = node_id \/ Head(ls).target_id = node_id
         THEN <<Head(ls).id>> \o LinksTouching(Tail(ls), node_id)
    ELSE LinksTouching(Tail(ls), node_id)

remove_node(G, node_id) ==
    LET G1 == [G EXCEPT !.nodes = [n \in DOMAIN @ \ {node_id} |-> @[n]]]
    IN  RemoveLinks(G1, LinksTouching(G1.links, node_id))

\* mutant: the target is marked dirty whatever trigger_dirty says
add_link_always_dirty(G, source_id, target_id, trigger_dirty, link_id) ==
    LET G1 == [G EXCEPT !.links = Append(@, [id |-> link_id,
                                            source_id |-> source_id,
                                            target_id |-> target_id])]
    IN  IF target_id \in DOMAIN G1.nodes
        THEN mark_dirty(SetInputLinks(G1, target_id,
                                      Append(G1.nodes[target_id].input_links,
                                             link_id)),
                        target_id)
        ELSE G1

add_link(G, source_id, target_id, trigger_dirty, link_id) ==
    LET G1 == [G EXCEPT !.links = Append(@, [id |-> link_id,
                                            source_id |-> source_id,
                                            target_id |-> target_id])]
    IN  IF target_id \in DOMAIN G1.nodes
        THEN LET G2 == SetInputLinks(G1, target_id,
                                     Append(G1.nodes[target_id].input_links,
                                            link_id))
             IN  IF trigger_dirty THEN mark_dirty(G2, target_id) ELSE G2
        ELSE G1

\* AntiGravityWindow.on_worker_finished: store the result, cascade, clear
MainWindow_on_worker_finished(G, node_id, result) ==
    IF node_id \in DOMAIN G.nodes
    THEN LET G1 == mark_dirty([G EXCEPT !.nodes[node_id].cached_output = result],
                              node_id)
         IN  [G1 EXCEPT !.nodes[node_id].is_dirty = FALSE]
    ELSE G

\* EditorTab.on_task_finished: store the result; the tab's own is_dirty flag
\* and the widgets are outside the graph
EditorTab_on_task_finished(G, node_id, result) ==
    IF node_id \in DOMAIN G.nodes
    THEN [G EXCEPT !.nodes[node_id].cached_output = result]
    ELSE G

\* NodeItem, settings dialog accepted: config.provider and config.model are
\* the dialog's selection, self.node.is_dirty = True
NodeItem_settings_accepted(G, node_id, selected_provider, selected_model) ==
    [G EXCEPT !.nodes[node_id].config.provider = selected_provider,
              !.nodes[node_id].config.model = selected_model,
              !.nodes[node_id].is_dirty = TRUE]

\* EditorTab.on_run_clicked: the config dict handed to submit_task
on_run_clicked_config(G, node_id) ==
    [model |-> G.nodes[node_id].config.model,
     provider |-> G.nodes[node_id].config.provider,
     max_tokens |-> G.nodes[node_id].config.max_tokens,
     trace_depth |-> G.nodes[node_id].config.trace_depth]


\* self.graph.links[link.id] = link  (dict: a new key goes last)
LinksSet(ls, link) ==
    IF link.id \in LinkIds(ls)
    THEN [i \in 1..Len(ls) |-> IF ls[i].id = link.id THEN link ELSE ls[i]]
    ELSE Append(ls, link)

\* mutant: the link id is appended without looking for it in input_links
RestoreLink_always_append(G, link) ==
    LET G1 == [G EXCEPT !.links = LinksSet(@, link)]
    IN  IF link.target_id \in DOMAIN G1.nodes
        THEN SetInputLinks(G1, link.target_id,
                           Append(G1.nodes[link.target_id].input_links,
                                  link.id))
        ELSE G1

\* links[link.id] = link; if the target is present, list the link in its
\* input_links unless it is there already
RestoreLink(G, link) ==
    LET G1 == [G EXCEPT !.links = LinksSet(@, link)]
    IN  IF link.target_id \in DOMAIN G1.nodes
        THEN IF link.id \in SeqElems(G1.nodes[link.target_id].input_links)
             THEN G1
             ELSE SetInputLinks(G1, link.target_id,
                                Append(G1.nodes[link.target_id].input_links,
                                       link.id))
        ELSE G1

\* ------------------------------------------------------------------------
\* Graph: load and merge of serialized data
\* ------------------------------------------------------------------------
\* uuid.uuid4() as a node id: the pool entry of the object's number
UuidPool == <<"U1", "U2", "U3", "U4", "U5", "U6", "U7", "U8", "U9">>
Uuid(obj) == UuidPool[obj]

\* Node.from_dict(data): a new Node object with the fields of the record;
\* a record parsed from a file brings a list of its own
Node_from_dict(data, obj) ==
    [obj |-> obj, input_list |-> obj, config |-> data.config, prompt |-> data.prompt,
     cached_output |-> data.cached_output, is_dirty |-> data.is_dirty,
     name |-> data.name, input_links |-> data.inputs,
     pos_x |-> data.pos[1], pos_y |-> data.pos[2], height |-> data.size[2]]

\* dict.get(key): the mapped value, or None
NoId == "None"
MapGet(m, key) == IF key \in DOMAIN m THEN m[key] ELSE NoId
MapSet(m, key, val) == (key :> val) @@ m

SetMin(S) == CHOOSE x \in S : \A y \in S : x <= y
SetMax(S) == CHOOSE x \in S : \A y \in S : x >= y

is_name_unique(G, name) ==
    IF name = <<>> THEN TRUE
    ELSE \A n \in DOMAIN G.nodes : G.nodes[n].name # name

Digits == <<"0", "1", "2", "3", "4", "5", "6", "7", "8", "9">>
IsDigit(c) == \E d \in 1..10 : Digits[d] = c
DigitValue(c) == (CHOOSE d \in 1..10 : Digits[d] = c) - 1

\* int(text) of a digit string
RECURSIVE ParseInt(_)
ParseInt(text) ==
    IF text = <<>> THEN 0
    ELSE 10 * ParseInt(SubSeq(text, 1, Len(text) - 1))
         + DigitValue(text[Len(text)])

\* str(n) for n >= 0
RECURSIVE IntToStr(_)
IntToStr(n) ==
    IF n < 10 THEN <<Digits[n + 1]>>
    ELSE IntToStr(n \div 10) \o <<Digits[(n % 10) + 1]>>

\* f"{n:04d}"
RECURSIVE ZeroPad(_, _)
ZeroPad(text, width) ==
    IF Len(text) >= width THEN text ELSE ZeroPad(<<"0">> \o text, width)
Format04d(n) == ZeroPad(IntToStr(n), 4)

\* re.search(r'_(\d{4})$', name)
EndsWithIndex(name) ==
    /\ Len(name) >= 5
    /\ name[Len(name) - 4] = "_"
    /\ \A i \in (Len(name) - 3)..Len(name) : IsDigit(name[i])

\* while True: idx += 1; test_name = f"{prefix}_{idx:04d}"; unique -> done
RECURSIVE NextIndexedName(_, _, _)
NextIndexedName(G, prefix, idx) ==
    LET test_name == prefix \o <<"_">> \o Format04d(idx + 1)
    IN  IF is_name_unique(G, test_name) THEN test_name
        ELSE NextIndexedName(G, prefix, idx + 1)

\* text[:n]
Truncated(text, n) == SubSeq(text, 1, IF Len(text) < n THEN Len(text) ELSE n)

\* merge_graph: "Name Collision Handling"
MergedName(G, name, filename) ==
    IF name # <<>> /\ ~is_name_unique(G, name)
    THEN LET suggested_name == name \o <<"_">> \o filename
         IN  IF Len(suggested_name) > 32 \/ ~is_name_unique(G, suggested_name)
             THEN IF EndsWithIndex(name)
                  THEN NextIndexedName(G, SubSeq(name, 1, Len(name) - 5),
                                       ParseInt(SubSeq(name, Len(name) - 3,
                                                       Len(name))))
                  ELSE NextIndexedName(G, Truncated(name, 27), 0)
             ELSE suggested_name
    ELSE name

\* merge_graph step 1: the new Node objects and the id map.  Collisions are
\* looked up in self.nodes, which the loop does not change.
RECURSIVE MergeNodes(_, _, _, _, _, _)
MergeNodes(G, node_datas, filename, offset, obj, acc) ==
    IF node_datas = <<>> THEN acc
    ELSE LET data == Head(node_datas)
             node == Node_from_dict(data, obj)
             new_id == IF data.id \in DOMAIN G.nodes THEN Uuid(obj) ELSE data.id
             moved == [node EXCEPT !.pos_x = @ + offset[1],
                                   !.pos_y = @ + offset[2],
                                   !.name = MergedName(G, @, filename)]
         IN  MergeNodes(G, Tail(node_datas), filename, offset, obj + 1,
                        [new_nodes |-> Append(acc.new_nodes,
                                              [id |-> new_id, node |-> moved]),
                         id_map |-> MapSet(acc.id_map, data.id, new_id)])

\* merge_graph step 2: node.input_links = []; self.add_node(node)
RECURSIVE MergeAddNodes(_, _)
MergeAddNodes(G, new_nodes) ==
    IF new_nodes = <<>> THEN G
    ELSE MergeAddNodes(add_node(G, Head(new_nodes).id,
                                [Head(new_nodes).node EXCEPT !.input_links = <<>>]),
                       Tail(new_nodes))

\* merge_graph step 3: links between mapped endpoints, trigger_dirty=False.
\* R is [graph, nextLink].
RECURSIVE MergeLinks(_, _, _)
MergeLinks(R, link_datas, id_map) ==
    IF link_datas = <<>> THEN R
    ELSE LET new_source == MapGet(id_map, Head(link_datas).source)
             new_target == MapGet(id_map, Head(link_datas).target)
         IN  MergeLinks(
                IF new_source # NoId /\ new_target # NoId
                THEN [graph |-> add_link(R.graph, new_source, new_target,
                                         FALSE, R.nextLink),
                      nextLink |-> R.nextLink + 1]
                ELSE R,
                Tail(link_datas), id_map)

\* PADDING
MergePadding == 50

\* merge_graph: "Calculate Positioning Offset"
MergeOffset(G, data) ==
    IF DOMAIN G.nodes # {} /\ data.nodes # <<>>
    THEN LET current_min_x == SetMin({ G.nodes[n].pos_x : n \in DOMAIN G.nodes })
             current_max_y == SetMax({ G.nodes[n].pos_y + G.nodes[n].height :
                                         n \in DOMAIN G.nodes })
             incoming_min_x == SetMin({ data.nodes[i].pos[1] :
                                          i \in 1..Len(data.nodes) })
             incoming_min_y == SetMin({ data.nodes[i].pos[2] :
                                          i \in 1..Len(data.nodes) })
         IN  <<current_min_x - incoming_min_x,
               current_max_y + MergePadding - incoming_min_y>>
    ELSE <<0, 0>>

\* Graph.merge_graph(data, filename); the result is [graph, nextLink, nextObj]
merge_graph(G, data, filename, link_id, obj) ==
    LET M == MergeNodes(G, data.nodes, filename, MergeOffset(G, data), obj,
                        [new_nodes |-> <<>>, id_map |-> <<>>])
        R == MergeLinks([graph |-> MergeAddNodes(G, M.new_nodes),
                         nextLink |-> link_id],
                        data.links, M.id_map)
    IN  [graph |-> R.graph, nextLink |-> R.nextLink,
         nextObj |-> obj + Len(data.nodes)]

\* mutant: a record whose id was seen keeps its id
FromDictNode_no_remap(acc, data, obj) ==
    LET node == [Node_from_dict(data, obj) EXCEPT !.input_links = <<>>]
    IN  [graph |-> add_node(acc.graph, data.id, node),
         node_id_map |-> MapSet(acc.node_id_map, data.id, data.id),
         seen_node_ids |-> acc.seen_node_ids \cup {data.id}]

\* Graph.from_dict, one pass of the node loop: acc is
\* [graph, node_id_map, seen_node_ids]
FromDictNode(acc, data, obj) ==
    LET node == [Node_from_dict(data, obj) EXCEPT !.input_links = <<>>]
        collides == data.id \in acc.seen_node_ids
        final_id == IF collides THEN Uuid(obj) ELSE data.id
    IN  [graph |-> add_node(acc.graph, final_id, node),
         node_id_map |-> MapSet(acc.node_id_map, data.id, final_id),
         seen_node_ids |-> IF collides THEN acc.seen_node_ids
                           ELSE acc.seen_node_ids \cup {data.id}]

\* for node_data in data.get("nodes", [])
RECURSIVE FromDictNodes(_, _, _)
FromDictNodes(node_datas, obj, acc) ==
    IF node_datas = <<>> THEN acc
    ELSE FromDictNodes(Tail(node_datas), obj + 1,
                       FromDictNode(acc, Head(node_datas), obj))

\* a link record without an id: link_data.get("id") is None
NoLinkId == 0

\* Graph.from_dict, one pass of the link loop: acc is
\* [graph, seen_link_ids, nextLink]
FromDictLink(acc, data, node_id_map) ==
    LET remapped_source == IF data.source \in DOMAIN node_id_map
                           THEN node_id_map[data.source] ELSE data.source
        remapped_target == IF data.target \in DOMAIN node_id_map
                           THEN node_id_map[data.target] ELSE data.target
        generated == data.id = NoLinkId
        id1 == IF generated THEN acc.nextLink ELSE data.id
        next1 == IF generated THEN acc.nextLink + 1 ELSE acc.nextLink
        collides == id1 \in acc.seen_link_ids
        final_id == IF collides THEN next1 ELSE id1
        link == [id |-> final_id, source_id |-> remapped_source,
                 target_id |-> remapped_target]
    IN  IF \/ remapped_source \notin DOMAIN acc.graph.nodes
           \/ remapped_target \notin DOMAIN acc.graph.nodes
        THEN acc
        ELSE [graph |-> RestoreLink(acc.graph, link),
              seen_link_ids |-> IF collides THEN acc.seen_link_ids
                                ELSE acc.seen_link_ids \cup {id1},
              nextLink |-> IF collides THEN next1 + 1 ELSE next1]

\* for link_data in data.get("links", [])
RECURSIVE FromDictLinks(_, _, _)
FromDictLinks(link_datas, node_id_map, acc) ==
    IF link_datas = <<>> THEN acc
    ELSE FromDictLinks(Tail(link_datas), node_id_map,
                       FromDictLink(acc, Head(link_datas), node_id_map))

\* Graph.from_dict(data); the result is [graph, nextLink, nextObj].  link_id
\* is a link id above those of the data, from which uuid4 ids are taken.
from_dict(data, link_id, obj) ==
    LET N == FromDictNodes(data.nodes, obj,
                           [graph |-> [nodes |-> <<>>, links |-> <<>>],
                            node_id_map |-> <<>>, seen_node_ids |-> {}])
        L == FromDictLinks(data.links, N.node_id_map,
                           [graph |-> N.graph, seen_link_ids |-> {},
                            nextLink |-> link_id])
    IN  [graph |-> L.graph, nextLink |-> L.nextLink,
         nextObj |-> obj + Len(data.nodes)]

\* Node.to_dict(): "inputs" is the node's input_links
Node_to_dict(node_id, node) ==
    [id |-> node_id, pos |-> <<node.pos_x, node.pos_y>>,
     size |-> <<300, node.height>>, config |-> node.config,
     prompt |-> node.prompt, cached_output |-> node.cached_output,
     is_dirty |-> node.is_dirty, name |-> node.name,
     inputs |-> node.input_links]

\* self.nodes.values(): the nodes by object number (the order of the dict is
\* not kept in the state, and with distinct ids nothing that reads the
\* document depends on it)
RECURSIVE NodeValues(_, _)
NodeValues(G, S) ==
    IF S = {} THEN <<>>
    ELSE LET first == CHOOSE n \in S :
                        \A m \in S : G.nodes[n].obj <= G.nodes[m].obj
         IN  <<Node_to_dict(first, G.nodes[first])>> \o NodeValues(G, S \ {first})

\* Graph.to_dict(), written by json.dump and read back by json.load
to_dict(G) ==
    [nodes |-> NodeValues(G, DOMAIN G.nodes),
     links |-> [i \in 1..Len(G.links) |->
                  [id |-> G.links[i].id, source |-> G.links[i].source_id,
                   target |-> G.links[i].target_id]]]

\* ------------------------------------------------------------------------
\* Serialized documents the graph is loaded from and merged with
\* ------------------------------------------------------------------------
\* a node record as Node.to_dict writes it (presentation fields that nothing
\* reads are left out)
DocNode(id, is_dirty) ==
    [id |-> id, pos |-> <<0, 0>>, size |-> <<300, NodeHeight>>,
     config |-> NewNodeConfig, prompt |-> <<>>, cached_output |-> <<>>,
     is_dirty |-> is_dirty, name |-> <<>>, inputs |-> <<>>]

DocLink(id, source, target) == [id |-> id, source |-> source, target |-> target]

EmptyDoc == [nodes |-> <<>>, links |-> <<>>]

\* B with the two inputs A (first) and C, as saved: clean nodes, and B
\* listing its input links
FanInDoc ==
    [nodes |-> <<DocNode("A", FALSE),
                 [DocNode("B", FALSE) EXCEPT !.inputs = <<1, 2>>,
                                             !.name = <<"N">>],
                 DocNode("C", TRUE)>>,
     links |-> <<DocLink(1, "A", "B"), DocLink(2, "C", "B")>>]

\* a hand-edited file: two records with the same id, and a link between them
TwinDoc ==
    [nodes |-> <<DocNode("X", FALSE), DocNode("X", TRUE)>>,
     links |-> <<DocLink(1, "X", "X")>>]

LoadDocs == {EmptyDoc, FanInDoc}
MergeDocs == {FanInDoc, TwinDoc}

\* the file name a document is merged under
MergeFilename == <<"f">>

\* a link id above the ids of the document
DocLinkTop(data) ==
    1 + SetMax({0} \cup { data.links[i].id : i \in 1..Len(data.links) })

\* ------------------------------------------------------------------------
\* Commands (core/command.py)
\* ------------------------------------------------------------------------
\* The graph, the detached Node objects and the command manager, as one
\* value that a command's or the manager's statements transform in order.
\* A command holds its Node objects by reference ([id, obj]); the state of
\* such an object is in nodes[id] while graph.nodes holds that very object
\* and in heap[obj] otherwise.  Link objects are never mutated and are
\* held by value.
CmdState ==
    [nodes |-> nodes, links |-> links, heap |-> heap,
     undo_stack |-> undo_stack, redo_stack |-> redo_stack,
     max_stack_size |-> max_stack_size]

GraphOf(C) == [nodes |-> C.nodes, links |-> C.links, heap |-> C.heap]
WithGraph(C, G) ==
    [C EXCEPT !.nodes = G.nodes, !.links = G.links, !.heap = G.heap]

\* the object that graph.nodes[node_id] is about to let go stays reachable
\* through the commands that hold it
Detach(C, node_id) ==
    IF node_id \in DOMAIN C.nodes
    THEN [C EXCEPT !.heap = (C.nodes[node_id].obj :> C.nodes[node_id]) @@ @]
    ELSE C

\* self.graph.remove_node(node.id)
Cmd_remove_node(C, node_id) ==
    LET C1 == Detach(C, node_id)
    IN  WithGraph(C1, remove_node(GraphOf(C1), node_id))

\* self.graph.add_node(node), node being the command's own object
Cmd_add_node(C, ref) ==
    IF ref.id \in DOMAIN C.nodes /\ C.nodes[ref.id].obj = ref.obj THEN C
    ELSE LET C1 == Detach(C, ref.id)
             C2 == [C1 EXCEPT !.heap = [o \in DOMAIN @ \ {ref.obj} |-> @[o]]]
         IN  WithGraph(C2, add_node(GraphOf(C2), ref.id, C1.heap[ref.obj]))

\* the same, followed by mark_dirty(link.target_id) when the target is present
RestoreLinkDirty(G, link) ==
    IF link.target_id \in DOMAIN G.nodes
    THEN mark_dirty(RestoreLink(G, link), link.target_id)
    ELSE RestoreLink(G, link)

RECURSIVE RemoveNodesEach(_, _)
RemoveNodesEach(C, refs) ==
    IF refs = <<>> THEN C
    ELSE RemoveNodesEach(Cmd_remove_node(C, Head(refs).id), Tail(refs))

RECURSIVE AddNodesEach(_, _)
AddNodesEach(C, refs) ==
    IF refs = <<>> THEN C
    ELSE AddNodesEach(Cmd_add_node(C, Head(refs)), Tail(refs))

RECURSIVE RestoreLinksEach(_, _, _)
RestoreLinksEach(G, ls, dirty) ==
    IF ls = <<>> THEN G
    ELSE RestoreLinksEach(IF dirty THEN RestoreLinkDirty(G, Head(ls))
                                   ELSE RestoreLink(G, Head(ls)),
                          Tail(ls), dirty)

\* MoveNodesCommand: entries are <<node_id, old_x, old_y, new_x, new_y>>
RECURSIVE MoveEach(_, _, _)
MoveEach(G, move_data, forward) ==
    IF move_data = <<>> THEN G
    ELSE LET m == Head(move_data)
             G1 == IF m[1] \in DOMAIN G.nodes
                   THEN [G EXCEPT !.nodes[m[1]].pos_x = IF forward THEN m[4] ELSE m[2],
                                  !.nodes[m[1]].pos_y = IF forward THEN m[5] ELSE m[3]]
                   ELSE G
         IN  MoveEach(G1, Tail(move_data), forward)

EditPrompt_set(G, node_id, text) ==
    IF node_id \in DOMAIN G.nodes
    THEN mark_dirty([G EXCEPT !.nodes[node_id].prompt = text], node_id)
    ELSE G

EditOutput_set(G, node_id, text) ==
    IF node_id \in DOMAIN G.nodes
    THEN [G EXCEPT !.nodes[node_id].cached_output = text]
    ELSE G

RenameNode_set(G, node_id, name) ==
    IF node_id \in DOMAIN G.nodes
    THEN [G EXCEPT !.nodes[node_id].name = name]
    ELSE G

\* Command.execute of each command class
Command_execute(C, cmd) ==
    CASE cmd.type = "AddNode" -> Cmd_add_node(C, cmd.node)
      [] cmd.type = "DeleteNodes" -> RemoveNodesEach(C, cmd.nodes)
      [] cmd.type = "MoveNodes" ->
            WithGraph(C, MoveEach(GraphOf(C), cmd.move_data, TRUE))
      [] cmd.type = "AddLink" ->
            WithGraph(C, RestoreLinkDirty(GraphOf(C), cmd.link))
      [] cmd.type = "DeleteLink" ->
            WithGraph(C, remove_link(GraphOf(C), cmd.link.id))
      [] cmd.type = "EditPrompt" ->
            WithGraph(C, EditPrompt_set(GraphOf(C), cmd.node_id, cmd.new_text))
      [] cmd.type = "EditOutput" ->
            WithGraph(C, EditOutput_set(GraphOf(C), cmd.node_id, cmd.new_text))
      [] cmd.type = "RenameNode" ->
            WithGraph(C, RenameNode_set(GraphOf(C), cmd.node_id, cmd.new_name))
      [] cmd.type = "PasteNodesAndLinks" ->
            LET C1 == AddNodesEach(C, cmd.nodes)
            IN  WithGraph(C1, RestoreLinksEach(GraphOf(C1), cmd.links, TRUE))

\* Command.undo of each command class
Command_undo(C, cmd) ==
    CASE cmd.type = "AddNode" -> Cmd_remove_node(C, cmd.node.id)
      [] cmd.type = "DeleteNodes" ->
            LET C1 == AddNodesEach(C, cmd.nodes)
            IN  WithGraph(C1, RestoreLinksEach(GraphOf(C1), cmd.links, FALSE))
      [] cmd.type = "MoveNodes" ->
            WithGraph(C, MoveEach(GraphOf(C), cmd.move_data, FALSE))
      [] cmd.type = "AddLink" ->
            WithGraph(C, remove_link(GraphOf(C), cmd.link.id))
      [] cmd.type = "DeleteLink" ->
            WithGraph(C, RestoreLinkDirty(GraphOf(C), cmd.link))
      [] cmd.type = "EditPrompt" ->
            WithGraph(C, EditPrompt_set(GraphOf(C), cmd.node_id, cmd.old_text))
      [] cmd.type = "EditOutput" ->
            WithGraph(C, EditOutput_set(GraphOf(C), cmd.node_id, cmd.old_text))
      [] cmd.type = "RenameNode" ->
            WithGraph(C, RenameNode_set(GraphOf(C), cmd.node_id, cmd.old_name))
      [] cmd.type = "PasteNodesAndLinks" -> RemoveNodesEach(C, cmd.nodes)

\* ------------------------------------------------------------------------
\* CommandManager (core/command_manager.py)
\* ------------------------------------------------------------------------
\* mutant: the redo stack is kept
CommandManager_execute_keeps_redo(C, cmd, fresh) ==
    LET C1 == Command_execute([C EXCEPT !.heap = fresh @@ @], cmd)
        pushed == Append(C1.undo_stack, cmd)
    IN  [C1 EXCEPT !.undo_stack = IF Len(pushed) > C1.max_stack_size
                                  THEN Tail(pushed) ELSE pushed]

\* execute(command); `fresh` holds the Node objects constructed for it
CommandManager_execute(C, cmd, fresh) ==
    LET C1 == Command_execute([C EXCEPT !.heap = fresh @@ @], cmd)
        pushed == Append(C1.undo_stack, cmd)
    IN  [C1 EXCEPT !.undo_stack = IF Len(pushed) > C1.max_stack_size
                                  THEN Tail(pushed) ELSE pushed,
                   !.redo_stack = <<>>]

CommandManager_undo(C) ==
    IF C.undo_stack = <<>> THEN C
    ELSE LET cmd == C.undo_stack[Len(C.undo_stack)]
             C1 == [C EXCEPT !.undo_stack = SubSeq(@, 1, Len(@) - 1)]
         IN  [Command_undo(C1, cmd) EXCEPT !.redo_stack = Append(@, cmd)]

CommandManager_redo(C) ==
    IF C.redo_stack = <<>> THEN C
    ELSE LET cmd == C.redo_stack[Len(C.redo_stack)]
             C1 == [C EXCEPT !.redo_stack = SubSeq(@, 1, Len(@) - 1)]
         IN  [Command_execute(C1, cmd) EXCEPT !.undo_stack = Append(@, cmd)]

CommandManager_clear(C) ==
    [C EXCEPT !.undo_stack = <<>>, !.redo_stack = <<>>]

\* while len(self.undo_stack) > self.max_stack_size: self.undo_stack.pop(0)
RECURSIVE TrimOldest(_, _)
TrimOldest(stack, size) ==
    IF Len(stack) > size THEN TrimOldest(Tail(stack), size) ELSE stack

CommandManager_set_max_stack_size(C, size) ==
    [C EXCEPT !.max_stack_size = size,
              !.undo_stack = TrimOldest(@, size)]

\* ------------------------------------------------------------------------
\* TabController (core/tab_controller.py)
\* ------------------------------------------------------------------------
\* _tabs and _active_tab_id, as one value that a method's statements
\* transform in order.  A tab is its TabInfo: tab_id, is_active, and
\* graph_controller.is_dirty as is_dirty.
TabState == [tabs |-> tabs, active_tab_id |-> active_tab_id]

\* self._active_tab_id = None
NoTab == 0

TabIds(ts) == { ts[i].tab_id : i \in 1..Len(ts) }

\* self._tabs[tab_id].<field> = value
TabSet(ts, tab_id, field, value) ==
    [i \in 1..Len(ts) |->
       IF ts[i].tab_id = tab_id THEN [ts[i] EXCEPT ![field] = value] ELSE ts[i]]

\* create_tab(): TabInfo(is_active=False) under a new uuid, on a
\* GraphController that starts clean
create_tab(T, tab_id) ==
    [T EXCEPT !.tabs = Append(@, [tab_id |-> tab_id, is_active |-> FALSE,
                                  is_dirty |-> FALSE])]

\* mutant: the previous tab is not deactivated
set_active_tab_keeps_previous(T, tab_id) ==
    IF tab_id \notin TabIds(T.tabs) THEN T
    ELSE [tabs |-> TabSet(T.tabs, tab_id, "is_active", TRUE),
          active_tab_id |-> tab_id]

set_active_tab(T, tab_id) ==
    IF tab_id \notin TabIds(T.tabs) THEN T
    ELSE LET deactivated ==
                 IF T.active_tab_id # NoTab /\ T.active_tab_id \in TabIds(T.tabs)
                 THEN TabSet(T.tabs, T.active_tab_id, "is_active", FALSE)
                 ELSE T.tabs
         IN  [tabs |-> TabSet(deactivated, tab_id, "is_active", TRUE),
              active_tab_id |-> tab_id]

close_tab(T, tab_id, force) ==
    IF tab_id \notin TabIds(T.tabs) THEN T
    ELSE IF ~force /\ \E i \in 1..Len(T.tabs) :
                          T.tabs[i].tab_id = tab_id /\ T.tabs[i].is_dirty
         THEN T
    ELSE LET T1 == [T EXCEPT !.tabs = SelectSeq(@, LAMBDA t : t.tab_id # tab_id)]
         IN  IF T1.active_tab_id = tab_id
             THEN LET T2 == [T1 EXCEPT !.active_tab_id = NoTab]
                  IN  IF T2.tabs # <<>>
                      THEN set_active_tab(T2, T2.tabs[1].tab_id)
                      ELSE T2
             ELSE T1

\* mark_tab_dirty: tab_info.graph_controller.mark_dirty()
mark_tab_dirty(T, tab_id) ==
    [T EXCEPT !.tabs = TabSet(@, tab_id, "is_dirty", TRUE)]

\* ------------------------------------------------------------------------
\* Initial state: LLMQueueManager.__init__, Graph.__init__
\* ------------------------------------------------------------------------
SchedInit ==
    /\ queues = [p \in ProviderKeys |-> <<>>]
    /\ active_workers = [p \in ProviderKeys |-> NoWorker]
    /\ worker_map = [n \in NodeIds |-> NoWorker]
    /\ workers = <<>>
    /\ signals = {}
    /\ nextTicket = 1
    /\ waiting = {}

\* SettingsManager.__init__ where no settings file exists
SettingsInit == settings = <<>>

\* TabController.__init__
TabInit ==
    /\ tabs = <<>>
    /\ active_tab_id = NoTab
    /\ nextTab = 1

\* CommandManager.__init__
CmdManagerInit ==
    /\ undo_stack = <<>>
    /\ redo_stack = <<>>
    /\ heap = <<>>
    /\ executed = 0

Init ==
    /\ SchedInit
    /\ nodes = <<>>
    /\ links = <<>>
    /\ nextLink = 1
    /\ CmdManagerInit
    /\ max_stack_size = DefaultMaxStackSize
    /\ nextObj = 1
    /\ SettingsInit
    /\ file_data = EmptyDoc
    /\ TabInit

\* ------------------------------------------------------------------------
\* Scheduler steps
\* ------------------------------------------------------------------------
\* Worker objects still referenced: by the manager's maps, by a posted
\* signal, or by their own running thread.  The others are released
\* (deleteLater, reference counting) and nothing can observe them.
Live(ws, aw, wm, sigs) ==
    [w \in { w \in DOMAIN ws :
                \/ ws[w].state = "running"
                \/ \E p \in ProviderKeys : aw[p] = w
                \/ \E n \in NodeIds : wm[n] = w
                \/ \E s \in sigs : s.w = w } |-> ws[w]]

\* the handler's result (computed once, as s) becomes the manager's new state
Commit(S) ==
    \E s \in {S} :
        /\ queues' = s.queues
        /\ active_workers' = s.active_workers
        /\ worker_map' = s.worker_map
        /\ workers' = Live(s.workers, s.active_workers, s.worker_map, s.signals)
        /\ signals' = s.signals
        /\ waiting' = s.waiting

\* outcomes with which a worker that is joined while running may end
JoinOutcomes(node_id) ==
    IF /\ worker_map[node_id] # NoWorker
       /\ workers[worker_map[node_id]].state = "running"
    THEN {"finished", "error"}
    ELSE {"silent"}

\* EditorTab.on_run_clicked -> queue_manager.submit_task(node_id, prompt, config)
SubmitTask(node_id, config) ==
    /\ is_node_running_or_queued(SchedState, node_id) \/ nextTicket <= MaxTasks
    /\ Commit(submit_task(SchedState, node_id, config, nextTicket))
    /\ nextTicket' = IF is_node_running_or_queued(SchedState, node_id)
                     THEN nextTicket
                     ELSE nextTicket + 1
    /\ UNCHANGED <<graphVars, cmdVars, appVars, tabVars>>

\* EditorTab.on_cancel_clicked -> queue_manager.cancel_task(node_id)
CancelTask(node_id) ==
    /\ Commit(cancel_task(SchedState, node_id))
    /\ UNCHANGED <<nextTicket, graphVars, cmdVars, appVars, tabVars>>

\* delivery of a worker's `finished` signal to the manager's slot
OnWorkerFinished(sig) ==
    /\ sig \in signals
    /\ sig.kind = "finished"
    /\ \E outcome \in JoinOutcomes(sig.node_id) :
          Commit(on_worker_finished(
                    [SchedState EXCEPT !.signals = @ \ {sig}],
                    sig.node_id, outcome))
    /\ UNCHANGED <<nextTicket, graphVars, cmdVars, appVars, tabVars>>

\* delivery of a worker's `error` signal to the manager's slot
OnWorkerError(sig) ==
    /\ sig \in signals
    /\ sig.kind = "error"
    /\ \E outcome \in JoinOutcomes(sig.node_id) :
          Commit(on_worker_error(
                    [SchedState EXCEPT !.signals = @ \ {sig}],
                    sig.node_id, outcome))
    /\ UNCHANGED <<nextTicket, graphVars, cmdVars, appVars, tabVars>>

\* the active workers that shutdown finds still in their request
ActiveRunning ==
    { w \in DOMAIN workers :
        /\ workers[w].state = "running"
        /\ \E p \in ProviderKeys : active_workers[p] = w }

Shutdown ==
    /\ \E errs \in SUBSET ActiveRunning : Commit(shutdown(SchedState, errs))
    /\ UNCHANGED <<nextTicket, graphVars, cmdVars, appVars, tabVars>>

\* ------------------------------------------------------------------------
\* LLMWorker.run, in the worker's own thread
\* ------------------------------------------------------------------------
WorkerStep(w, st, sigs) ==
    /\ workers' = Live([workers EXCEPT ![w].state = st], active_workers,
                        worker_map, signals \cup sigs)
    /\ signals' = signals \cup sigs
    /\ UNCHANGED <<queues, active_workers, worker_map, nextTicket, waiting,
                   graphVars, cmdVars, appVars, tabVars>>

\* _call_*: `if self.is_cancelled: return` passed, finished.emit(node_id, result)
WorkerEmitFinished(w) ==
    /\ w \in DOMAIN workers
    /\ workers[w].state = "running"
    /\ ~workers[w].is_cancelled
    /\ Cardinality(signals) < MaxPending
    /\ WorkerStep(w, "exited",
                  {[kind |-> "finished", node_id |-> workers[w].node_id, w |-> w]})

\* run(): except Exception -> error.emit(node_id, msg), is_cancelled not read
WorkerEmitError(w) ==
    /\ w \in DOMAIN workers
    /\ workers[w].state = "running"
    /\ Cardinality(signals) < MaxPending
    /\ WorkerStep(w, "exited",
                  {[kind |-> "error", node_id |-> workers[w].node_id, w |-> w]})

\* run(): cancelled before the request, CancelledError, or result suppressed
WorkerCancelledExit(w) ==
    /\ w \in DOMAIN workers
    /\ workers[w].state = "running"
    /\ workers[w].is_cancelled
    /\ WorkerStep(w, "exited", {})

Next ==
    \/ \E n \in NodeIds : \E c \in ConfigsOf(n) : SubmitTask(n, c)
    \/ \E n \in NodeIds : CancelTask(n)
    \/ \E sig \in signals : OnWorkerFinished(sig)
    \/ \E sig \in signals : OnWorkerError(sig)
    \/ Shutdown
    \/ \E w \in DOMAIN workers : WorkerEmitFinished(w)
    \/ \E w \in DOMAIN workers : WorkerEmitError(w)
    \/ \E w \in DOMAIN workers : WorkerCancelledExit(w)

Spec == Init /\ [][Next]_vars

\* ------------------------------------------------------------------------
\* Graph steps
\* ------------------------------------------------------------------------
CommitGraph(G) ==
    /\ nodes' = G.nodes
    /\ links' = G.links

AddNode(node_id) ==
    /\ node_id \notin DOMAIN nodes
    /\ CommitGraph(add_node(GraphState, node_id, NewNode))
    /\ UNCHANGED <<nextLink, schedVars, cmdVars, appVars, tabVars>>

RemoveNode(node_id) ==
    /\ node_id \in DOMAIN nodes
    /\ CommitGraph(remove_node(GraphState, node_id))
    /\ UNCHANGED <<nextLink, schedVars, cmdVars, appVars, tabVars>>

\* a wire dragged from one node onto another one
AddLink(source_id, target_id) ==
    /\ source_id \in DOMAIN nodes
    /\ target_id \in DOMAIN nodes
    /\ source_id # target_id
    /\ nextLink <= MaxLinks
    /\ CommitGraph(add_link(GraphState, source_id, target_id, TRUE, nextLink))
    /\ nextLink' = nextLink + 1
    /\ UNCHANGED <<schedVars, cmdVars, appVars, tabVars>>

RemoveLink(link_id) ==
    /\ link_id \in LinkIds(links)
    /\ CommitGraph(remove_link(GraphState, link_id))
    /\ UNCHANGED <<nextLink, schedVars, cmdVars, appVars, tabVars>>

\* graph.mark_dirty(node_id), as EditPromptCommand.execute calls it
MarkDirty(node_id) ==
    /\ node_id \in DOMAIN nodes
    /\ CommitGraph(mark_dirty(GraphState, node_id))
    /\ UNCHANGED <<nextLink, schedVars, cmdVars, appVars, tabVars>>

TaskCompleted(node_id, result) ==
    /\ node_id \in DOMAIN nodes
    /\ CommitGraph(MainWindow_on_worker_finished(GraphState, node_id, result))
    /\ UNCHANGED <<nextLink, schedVars, cmdVars, appVars, tabVars>>

\* the node's settings dialog, accepted with the selection it opened with
SettingsAccepted(node_id) ==
    /\ node_id \in DOMAIN nodes
    /\ CommitGraph(NodeItem_settings_accepted(GraphState, node_id,
                                              nodes[node_id].config.provider,
                                              nodes[node_id].config.model))
    /\ UNCHANGED <<nextLink, schedVars, cmdVars, appVars, tabVars>>

GraphNext ==
    \/ \E n \in NodeIds : AddNode(n)
    \/ \E n \in NodeIds : RemoveNode(n)
    \/ \E s \in NodeIds, t \in NodeIds : AddLink(s, t)
    \/ \E l \in 1..MaxLinks : RemoveLink(l)
    \/ \E n \in NodeIds : MarkDirty(n)
    \/ \E n \in NodeIds, r \in Outputs : TaskCompleted(n, r)
    \/ \E n \in NodeIds : SettingsAccepted(n)

GraphSpec == Init /\ [][GraphNext]_vars


\* ------------------------------------------------------------------------
\* The editor's entry points: the commands they construct
\* ------------------------------------------------------------------------
Chat == <<"C", "h", "a", "t">>

\* re: ^Chat_(\d{4})$
IsChatName(name) ==
    /\ Len(name) = 9
    /\ SubSeq(name, 1, 4) = Chat
    /\ EndsWithIndex(name)

\* Graph.generate_new_node_name()
generate_new_node_name(G) ==
    LET max_idx == SetMax({0} \cup
                          { ParseInt(SubSeq(G.nodes[n].name, 6, 9)) :
                              n \in { m \in DOMAIN G.nodes :
                                        IsChatName(G.nodes[m].name) } })
    IN  NextIndexedName(G, Chat, max_idx)

\* number of digits that end the text
RECURSIVE TrailingDigits(_)
TrailingDigits(text) ==
    IF text # <<>> /\ IsDigit(text[Len(text)])
    THEN 1 + TrailingDigits(SubSeq(text, 1, Len(text) - 1))
    ELSE 0

CopySuffix == <<"_", "c", "o", "p", "y">>

\* re.sub(r'_copy\d+$', '', name)
StripCopySuffix(name) ==
    LET k == TrailingDigits(name)
    IN  IF /\ k >= 1
           /\ Len(name) >= k + 5
           /\ SubSeq(name, Len(name) - k - 4, Len(name) - k) = CopySuffix
        THEN SubSeq(name, 1, Len(name) - k - 5)
        ELSE name

\* name_num = 1; while not unique: name_num += 1  (f"{base}_copy{num:02d}")
RECURSIVE CopyName(_, _, _)
CopyName(G, base_name, name_num) ==
    LET test_name == base_name \o CopySuffix \o ZeroPad(IntToStr(name_num), 2)
    IN  IF is_name_unique(G, test_name) THEN test_name
        ELSE CopyName(G, base_name, name_num + 1)

\* the sequences without repetition of at most k elements of S
\* the nodes of S in the order their items were added to the scene
RECURSIVE InSceneOrder(_, _)
InSceneOrder(G, S) ==
    IF S = {} THEN <<>>
    ELSE LET first == CHOOSE n \in S :
                        \A m \in S : G.nodes[n].obj <= G.nodes[m].obj
         IN  <<first>> \o InSceneOrder(G, S \ {first})

\* scene.selectedItems(): the selected nodes, in the order the scene lists
\* them
Selections(G) ==
    { InSceneOrder(G, S) :
        S \in { T \in SUBSET DOMAIN G.nodes : T # {} /\ Cardinality(T) <= MaxSelected } }

NodeRef(G, node_id) == [id |-> node_id, obj |-> G.nodes[node_id].obj]

\* what an entry point hands to CommandManager.execute: the command, the
\* Node objects constructed for it, and how many link ids it took
NoFresh == <<>>
Request(cmd, fresh, new_links) ==
    [cmd |-> cmd, fresh |-> fresh, new_links |-> new_links]

\* EditorTab.add_node_at: Node() with a generated name
AddNodeRequest(G, obj) ==
    Request([type |-> "AddNode", node |-> [id |-> Uuid(obj), obj |-> obj]],
            obj :> [NewNode EXCEPT !.obj = obj,
                                   !.input_list = obj,
                                   !.name = generate_new_node_name(G)],
            0)

\* EditorTab.delete_selection, AntiGravityAPI.delete_node: the selected
\* nodes and every link that touches one of them
DeleteSelectionRequest(G, sel) ==
    Request([type |-> "DeleteNodes",
             nodes |-> [i \in 1..Len(sel) |-> NodeRef(G, sel[i])],
             links |-> SelectSeq(G.links,
                                 LAMBDA l : \/ l.source_id \in SeqElems(sel)
                                            \/ l.target_id \in SeqElems(sel))],
            NoFresh, 0)

\* paste_selection: pos_x += 40, pos_y += 40
PasteOffset == 40

\* EditorTab.duplicate_selection: copy_selection, then paste_selection.
\* The clipboard holds Node.to_dict() of each selected node, whose "inputs"
\* is the node's own input_links list, and Node.from_dict hands that list
\* to the new node: the copy holds the list object of its original.
DuplicateSelectionRequest(G, sel, obj, link_id) ==
    LET copied == SelectSeq(G.links,
                            LAMBDA l : /\ l.source_id \in SeqElems(sel)
                                       /\ l.target_id \in SeqElems(sel))
        NewId(old_id) == Uuid(obj - 1 + CHOOSE i \in 1..Len(sel) : sel[i] = old_id)
        NewNodeOf(i) ==
            LET old == G.nodes[sel[i]]
            IN  [old EXCEPT !.obj = obj - 1 + i,
                            !.name = IF @ = <<>> THEN @
                                     ELSE CopyName(G, StripCopySuffix(@), 1),
                            !.pos_x = @ + PasteOffset,
                            !.pos_y = @ + PasteOffset]
    IN  Request([type |-> "PasteNodesAndLinks",
                 nodes |-> [i \in 1..Len(sel) |->
                              [id |-> Uuid(obj - 1 + i), obj |-> obj - 1 + i]],
                 links |-> [j \in 1..Len(copied) |->
                              [id |-> link_id - 1 + j,
                               source_id |-> NewId(copied[j].source_id),
                               target_id |-> NewId(copied[j].target_id)]]],
                [o \in { obj - 1 + i : i \in 1..Len(sel) } |->
                    NewNodeOf(o - obj + 1)],
                Len(copied))

\* AntiGravityAPI.create_connection: both ends are nodes of the graph
CreateConnectionRequest(source_id, target_id, link_id) ==
    Request([type |-> "AddLink",
             link |-> [id |-> link_id, source_id |-> source_id,
                       target_id |-> target_id]],
            NoFresh, 1)

\* AntiGravityAPI.delete_connection: a link of the graph
DeleteConnectionRequest(link) ==
    Request([type |-> "DeleteLink", link |-> link], NoFresh, 0)

\* the values an edit writes
Texts == { <<>>, <<"p">> }
Names == { <<>>, <<"N">> }
Positions == { <<0, 0>>, <<10, 20>> }

\* EditorTab.on_move_finished
MoveRequest(G, node_id, new_pos) ==
    Request([type |-> "MoveNodes",
             move_data |-> << <<node_id, G.nodes[node_id].pos_x,
                                G.nodes[node_id].pos_y, new_pos[1], new_pos[2]>> >>],
            NoFresh, 0)

\* EditorTab.on_prompt_edit_finished
EditPromptRequest(G, node_id, new_text) ==
    Request([type |-> "EditPrompt", node_id |-> node_id,
             old_text |-> G.nodes[node_id].prompt, new_text |-> new_text],
            NoFresh, 0)

\* EditorTab.on_output_edit_finished
EditOutputRequest(G, node_id, new_text) ==
    Request([type |-> "EditOutput", node_id |-> node_id,
             old_text |-> G.nodes[node_id].cached_output, new_text |-> new_text],
            NoFresh, 0)

\* EditorTab.on_name_edit_finished: only if old_name != new_name
RenameRequest(G, node_id, new_name) ==
    Request([type |-> "RenameNode", node_id |-> node_id,
             old_name |-> G.nodes[node_id].name, new_name |-> new_name],
            NoFresh, 0)

\* every request the entry points can make in the state C
Requests(C, obj, link_id) ==
    LET G == GraphOf(C)
        N == DOMAIN G.nodes
    IN  {AddNodeRequest(G, obj)}
        \cup { DeleteSelectionRequest(G, sel) : sel \in Selections(G) }
        \cup { DuplicateSelectionRequest(G, sel, obj, link_id) :
                 sel \in { q \in Selections(G) : obj + Len(q) - 1 <= MaxObjs } }
        \cup { CreateConnectionRequest(st[1], st[2], link_id) : st \in N \X N }
        \cup { DeleteConnectionRequest(l) : l \in SeqElems(G.links) }
        \cup { MoveRequest(G, p[1], p[2]) :
                 p \in { q \in N \X Positions :
                           q[2] # <<G.nodes[q[1]].pos_x, G.nodes[q[1]].pos_y>> } }
        \cup { EditPromptRequest(G, t[1], t[2]) :
                 t \in { q \in N \X Texts : q[2] # G.nodes[q[1]].prompt } }
        \cup { EditOutputRequest(G, t[1], t[2]) :
                 t \in { q \in N \X Texts : q[2] # G.nodes[q[1]].cached_output } }
        \cup { RenameRequest(G, t[1], t[2]) :
                 t \in { q \in N \X Names : q[2] # G.nodes[q[1]].name } }

\* ------------------------------------------------------------------------
\* Command manager steps
\* ------------------------------------------------------------------------
\* the Node objects a command holds
CommandObjs(cmd) ==
    IF cmd.type = "AddNode" THEN {cmd.node.obj}
    ELSE IF cmd.type \in {"DeleteNodes", "PasteNodesAndLinks"}
         THEN { cmd.nodes[i].obj : i \in 1..Len(cmd.nodes) }
    ELSE {}

\* Node objects outside the graph stay alive while a command on one of the
\* stacks holds them
LiveHeap(C) ==
    LET held == UNION { CommandObjs(c) :
                          c \in SeqElems(C.undo_stack) \cup SeqElems(C.redo_stack) }
    IN  [o \in DOMAIN C.heap \cap held |-> C.heap[o]]

CommitCmd(C) ==
    /\ nodes' = C.nodes
    /\ links' = C.links
    /\ heap' = LiveHeap(C)
    /\ undo_stack' = C.undo_stack
    /\ redo_stack' = C.redo_stack
    /\ max_stack_size' = C.max_stack_size

\* a tab opened on a loaded file: Graph.from_dict(data), CommandManager()
CmdInit ==
    /\ SchedInit
    /\ CmdManagerInit
    /\ max_stack_size = DefaultMaxStackSize
    /\ SettingsInit
    /\ TabInit
    /\ \E data \in LoadDocs :
          LET L == from_dict(data, DocLinkTop(data), 1)
          IN  /\ file_data = data
              /\ nodes = L.graph.nodes
              /\ links = L.graph.links
              /\ nextLink = L.nextLink
              /\ nextObj = L.nextObj

\* an entry point constructs its command and calls command_manager.execute
Execute(req) ==
    /\ nextObj + Cardinality(DOMAIN req.fresh) - 1 <= MaxObjs
    /\ nextLink + req.new_links - 1 <= MaxCmdLinks
    /\ CommitCmd(CommandManager_execute(CmdState, req.cmd, req.fresh))
    /\ nextObj' = nextObj + Cardinality(DOMAIN req.fresh)
    /\ nextLink' = nextLink + req.new_links
    /\ executed' = executed + 1
    /\ UNCHANGED <<schedVars, appVars, tabVars>>

Undo ==
    /\ undo_stack # <<>>
    /\ CommitCmd(CommandManager_undo(CmdState))
    /\ UNCHANGED <<nextObj, nextLink, executed, schedVars, appVars, tabVars>>

Redo ==
    /\ redo_stack # <<>>
    /\ CommitCmd(CommandManager_redo(CmdState))
    /\ UNCHANGED <<nextObj, nextLink, executed, schedVars, appVars, tabVars>>

Clear ==
    /\ CommitCmd(CommandManager_clear(CmdState))
    /\ UNCHANGED <<nextObj, nextLink, executed, schedVars, appVars, tabVars>>

SetMaxStackSize(size) ==
    /\ CommitCmd(CommandManager_set_max_stack_size(CmdState, size))
    /\ UNCHANGED <<nextObj, nextLink, executed, schedVars, appVars, tabVars>>

\* AntiGravityWindow.merge_graph: self.graph.merge_graph(data, filename)
MergeGraph(data) ==
    /\ nextObj + Len(data.nodes) - 1 <= MaxObjs
    /\ nextLink + Len(data.links) - 1 <= MaxCmdLinks
    /\ LET R == merge_graph(GraphOf(CmdState), data, MergeFilename, nextLink,
                            nextObj)
       IN  /\ CommitCmd(WithGraph(CmdState, R.graph))
           /\ nextLink' = R.nextLink
           /\ nextObj' = R.nextObj
    /\ UNCHANGED <<executed, schedVars, appVars, tabVars>>

CmdNext ==
    \/ /\ executed < MaxCmds
       /\ \E req \in Requests(CmdState, nextObj, nextLink) : Execute(req)
    \/ Undo
    \/ Redo
    \/ \E data \in MergeDocs : MergeGraph(data)

CmdSpec == CmdInit /\ [][CmdNext]_vars

\* the sizes a CommandManager is constructed with or set to
StackSizes == 0..MaxStackSize

\* a new tab: Graph(), CommandManager(max_stack_size)
StackInit ==
    /\ SchedInit
    /\ CmdManagerInit
    /\ max_stack_size \in StackSizes
    /\ SettingsInit
    /\ file_data = EmptyDoc
    /\ TabInit
    /\ nodes = <<>>
    /\ links = <<>>
    /\ nextLink = 1
    /\ nextObj = 1

StackNext ==
    \/ /\ executed < MaxStackCmds
       /\ \E req \in Requests(CmdState, nextObj, nextLink) : Execute(req)
    \/ Undo
    \/ Redo
    \/ Clear
    \/ \E size \in StackSizes : SetMaxStackSize(size)

StackSpec == StackInit /\ [][StackNext]_vars

\* ------------------------------------------------------------------------
\* ContextAssembler (core/assembler.py)
\* ------------------------------------------------------------------------
NL == <<"\n">>

\* sep.join(parts)
RECURSIVE Join(_, _)
Join(parts, sep) ==
    IF parts = <<>> THEN <<>>
    ELSE IF Len(parts) = 1 THEN parts[1]
    ELSE parts[1] \o sep \o Join(Tail(parts), sep)

\* text[-n:] for n >= 1
LastChars(text, n) ==
    IF n >= Len(text) THEN text ELSE SubSeq(text, Len(text) - n + 1, Len(text))

\* re \w
WordChars ==
    {"A", "B", "C", "D", "E", "F", "G", "H", "I", "J", "K", "L", "M", "N",
     "O", "P", "Q", "R", "S", "T", "U", "V", "W", "X", "Y", "Z", "a", "b",
     "c", "d", "e", "f", "g", "h", "i", "j", "k", "l", "m", "n", "o", "p",
     "q", "r", "s", "t", "u", "v", "w", "x", "y", "z", "0", "1", "2", "3",
     "4", "5", "6", "7", "8", "9", "_"}
IsWordChar(c) == c \in WordChars

\* the text of a node id.  str(uuid.uuid4()) is groups of hexadecimal digits
\* with "-" between them; an id a file gives is the text the file holds
IdText(node_id) ==
    IF \E o \in 1..Len(UuidPool) : UuidPool[o] = node_id
    THEN <<"U">> \o IntToStr(CHOOSE o \in 1..Len(UuidPool) : UuidPool[o] = node_id)
         \o <<"-", "4">>
    ELSE <<node_id>>

\* the last index of the run of word characters that starts at index i
RECURSIVE WordEnd(_, _)
WordEnd(text, i) ==
    IF i < Len(text) /\ IsWordChar(text[i + 1]) THEN WordEnd(text, i + 1) ELSE i

\* does r'@(\w+)' match at index i
RefAt(text, i) == text[i] = "@" /\ i < Len(text) /\ IsWordChar(text[i + 1])

\* re.findall(r'@(\w+)', text), from index i on, as a set
RECURSIVE FindRefs(_, _)
FindRefs(text, i) ==
    IF i > Len(text) THEN {}
    ELSE IF RefAt(text, i)
         THEN LET j == WordEnd(text, i + 1)
              IN  {SubSeq(text, i + 1, j)} \cup FindRefs(text, j + 1)
    ELSE FindRefs(text, i + 1)

\* Graph.get_input_nodes(node_id): the ids of the input nodes, in input order
RECURSIVE InputSources(_, _)
InputSources(G, link_ids) ==
    IF link_ids = <<>> THEN <<>>
    ELSE LET l_id == Head(link_ids)
             rest == InputSources(G, Tail(link_ids))
         IN  IF l_id \in LinkIds(G.links)
             THEN LET source_id == LinkById(G.links, l_id).source_id
                  IN  IF source_id \in DOMAIN G.nodes
                      THEN <<source_id>> \o rest ELSE rest
             ELSE rest

get_input_nodes(G, node_id) ==
    IF node_id \notin DOMAIN G.nodes THEN <<>>
    ELSE InputSources(G, G.nodes[node_id].input_links)

\* ContextAssembler._gather_history(node, depth)
RECURSIVE gather_history(_, _, _)

\* mutant: the parent's output is put before the parent's own history
gather_history_newest_first(G, node_id, depth) ==
    LET node == G.nodes[node_id]
    IN  IF depth <= 0 \/ node.input_links = <<>> THEN <<>>
        ELSE LET link_id == node.input_links[1]
             IN  IF link_id \notin LinkIds(G.links) THEN <<>>
                 ELSE LET parent_id == LinkById(G.links, link_id).source_id
                      IN  IF parent_id \notin DOMAIN G.nodes THEN <<>>
                          ELSE LET parent == G.nodes[parent_id]
                                   parent_history ==
                                       gather_history(G, parent_id, depth - 1)
                                   parts ==
                                       (IF parent.cached_output # <<>>
                                        THEN <<parent.cached_output>>
                                        ELSE <<>>)
                                       \o (IF parent_history # <<>>
                                           THEN <<parent_history>> ELSE <<>>)
                               IN  Join(parts, NL)

gather_history(G, node_id, depth) ==
    LET node == G.nodes[node_id]
    IN  IF depth <= 0 \/ node.input_links = <<>> THEN <<>>
        ELSE LET link_id == node.input_links[1]
             IN  IF link_id \notin LinkIds(G.links) THEN <<>>
                 ELSE LET parent_id == LinkById(G.links, link_id).source_id
                      IN  IF parent_id \notin DOMAIN G.nodes THEN <<>>
                          ELSE LET parent == G.nodes[parent_id]
                                   parent_history ==
                                       gather_history(G, parent_id, depth - 1)
                                   parts ==
                                       (IF parent_history # <<>>
                                        THEN <<parent_history>> ELSE <<>>)
                                       \o (IF parent.cached_output # <<>>
                                           THEN <<parent.cached_output>>
                                           ELSE <<>>)
                               IN  Join(parts, NL)

\* ContextAssembler._inject_references(prompt, node), from index i on:
\* a reference to a connected input is replaced by its cached output, any
\* other stays as written
RECURSIVE InjectFrom(_, _, _, _)
InjectFrom(G, inputs, prompt, i) ==
    IF i > Len(prompt) THEN <<>>
    ELSE IF RefAt(prompt, i)
         THEN LET j == WordEnd(prompt, i + 1)
                  key == SubSeq(prompt, i + 1, j)
                  named == { n \in SeqElems(inputs) : IdText(n) = key }
              IN  (IF named # {}
                   THEN G.nodes[CHOOSE n \in named : TRUE].cached_output
                   ELSE SubSeq(prompt, i, j))
                  \o InjectFrom(G, inputs, prompt, j + 1)
    ELSE <<prompt[i]>> \o InjectFrom(G, inputs, prompt, i + 1)

inject_references(G, prompt, node_id) ==
    InjectFrom(G, get_input_nodes(G, node_id), prompt, 1)

TruncatedBy == <<"[", ".", ".", ".", "T", "r", "u", "n", "c", "a", "t", "e", "d", " ", "b", "y", " ">>
TokensDots == <<" ", "t", "o", "k", "e", "n", "s", ".", ".", ".", "]">>

\* mutant: the prompt is cut to the limit as well
enforce_limit_cuts_prompt(history, prompt, limit) ==
    LET total4 == Len(prompt) + Len(history)
        chars_to_keep == 4 * limit - Len(prompt)
    IN  IF total4 <= 4 * limit
        THEN IF history # <<>> THEN history \o NL \o prompt ELSE prompt
        ELSE IF chars_to_keep <= 0
             THEN LastChars(prompt, IF limit >= 1 THEN 4 * limit ELSE 1)
        ELSE IF Len(history) > chars_to_keep
             THEN TruncatedBy \o IntToStr((total4 - 4 * limit) \div 4)
                  \o TokensDots \o NL \o LastChars(history, chars_to_keep)
                  \o NL \o prompt
        ELSE history \o NL \o prompt

\* ContextAssembler._enforce_limit(history, prompt, limit).  Token counts
\* are len / 4; they are compared here on the scale of characters:
\* total <= limit  iff  len(prompt) + len(history) <= 4 * limit.
enforce_limit(history, prompt, limit) ==
    LET total4 == Len(prompt) + Len(history)
        chars_to_keep == 4 * limit - Len(prompt)
    IN  IF total4 <= 4 * limit
        THEN IF history # <<>> THEN history \o NL \o prompt ELSE prompt
        ELSE IF chars_to_keep <= 0 THEN prompt
        ELSE IF Len(history) > chars_to_keep
             THEN TruncatedBy \o IntToStr((total4 - 4 * limit) \div 4)
                  \o TokensDots \o NL \o LastChars(history, chars_to_keep)
                  \o NL \o prompt
        ELSE history \o NL \o prompt

\* the implicit context: outputs of the inputs that the prompt does not
\* refer to, the primary parent left out when the history covers it
RECURSIVE ImplicitParts(_, _, _, _)
ImplicitParts(G, node_id, inputs, referenced_ids) ==
    IF inputs = <<>> THEN <<>>
    ELSE LET inp == Head(inputs)
             node == G.nodes[node_id]
             is_primary ==
                 /\ node.input_links # <<>>
                 /\ inp = LinkById(G.links, node.input_links[1]).source_id
             rest == ImplicitParts(G, node_id, Tail(inputs), referenced_ids)
         IN  IF node.config.trace_depth > 0 /\ is_primary THEN rest
             ELSE IF IdText(inp) \notin referenced_ids
                     /\ G.nodes[inp].cached_output # <<>>
                  THEN <<G.nodes[inp].cached_output>> \o rest
             ELSE rest

\* what assemble resolves the node's prompt to
final_prompt(G, node_id) == inject_references(G, G.nodes[node_id].prompt, node_id)

\* what assemble hands to _enforce_limit as the history
context_block(G, node_id) ==
    LET node == G.nodes[node_id]
        history_text == gather_history(G, node_id, node.config.trace_depth)
        implicit_context ==
            Join(ImplicitParts(G, node_id, get_input_nodes(G, node_id),
                               FindRefs(node.prompt, 1)),
                 NL \o NL)
    IN  history_text \o (IF implicit_context # <<>>
                         THEN NL \o NL \o implicit_context ELSE <<>>)

\* ContextAssembler.assemble(node)
assemble(G, node_id) ==
    enforce_limit(context_block(G, node_id), final_prompt(G, node_id),
                  G.nodes[node_id].config.max_tokens)

\* ------------------------------------------------------------------------
\* Assembling the prompts of a loaded graph
\* ------------------------------------------------------------------------
\* the values of max_tokens and trace_depth a file gives a node
MaxTokensLimit == 3
MaxTraceDepth == 2
AsmLimits == 0..MaxTokensLimit
AsmDepths == 0..MaxTraceDepth

\* prompts: empty, with a reference to the input C, with a reference to a
\* node that is not an input, and nine characters of plain text
AsmPrompts ==
    { <<>>, <<"@", "C", " ", "a">>, <<"@", "Z">>, <<"a", "b", "c", "d", "e", "f", "g", "h", "i">> }

\* outputs a completed task stores
AsmOutputs == { <<>>, <<"0", "1", "2", "3", "4", "5", "6", "7">>, <<"x", "y">> }

\* B with the inputs A (primary) and C, and C feeding A; B's limits and
\* prompt as the file gives them
AsmDoc(prompt, max_tokens, trace_depth) ==
    [nodes |-> <<DocNode("A", FALSE),
                 [DocNode("B", FALSE) EXCEPT
                     !.inputs = <<1, 2>>,
                     !.prompt = prompt,
                     !.config = [NewNodeConfig EXCEPT
                                    !.max_tokens = max_tokens,
                                    !.trace_depth = trace_depth]],
                 DocNode("C", FALSE)>>,
     links |-> <<DocLink(1, "A", "B"), DocLink(2, "C", "B"),
                 DocLink(3, "C", "A")>>]

\* the same with A feeding C as well: A and C are each other's primary
\* parent
AsmCycleDoc(prompt, max_tokens, trace_depth) ==
    [AsmDoc(prompt, max_tokens, trace_depth) EXCEPT
        !.links = Append(@, DocLink(4, "A", "C"))]

\* a graph the application built and saved: the second input of B has a
\* generated id and an output
AsmSavedDoc(trace_depth) ==
    [nodes |-> <<DocNode("A", FALSE),
                 [DocNode("B", FALSE) EXCEPT
                     !.inputs = <<1, 2>>,
                     !.config = [NewNodeConfig EXCEPT
                                    !.trace_depth = trace_depth]],
                 [DocNode(Uuid(Len(UuidPool)), FALSE) EXCEPT
                     !.cached_output = <<"x", "y">>]>>,
     links |-> <<DocLink(1, "A", "B"), DocLink(2, Uuid(Len(UuidPool)), "B")>>]

AsmDocs ==
    { AsmDoc(p, m, d) : p \in AsmPrompts, m \in AsmLimits, d \in AsmDepths }
    \cup { AsmSavedDoc(d) : d \in AsmDepths }
    \cup { AsmCycleDoc(p, m, d) : p \in AsmPrompts, m \in AsmLimits, d \in AsmDepths }

AsmInit ==
    /\ SchedInit
    /\ CmdManagerInit
    /\ max_stack_size = DefaultMaxStackSize
    /\ SettingsInit
    /\ TabInit
    /\ \E data \in AsmDocs :
          LET L == from_dict(data, DocLinkTop(data), 1)
          IN  /\ file_data = data
              /\ nodes = L.graph.nodes
              /\ links = L.graph.links
              /\ nextLink = L.nextLink
              /\ nextObj = L.nextObj

AsmNext == \E n \in NodeIds, r \in AsmOutputs : TaskCompleted(n, r)

AsmSpec == AsmInit /\ [][AsmNext]_vars

\* ------------------------------------------------------------------------
\* Loading a file
\* ------------------------------------------------------------------------
\* the node records of a file: none, distinct ids, and ids that occur twice
\* or three times; B as saved with its inputs list
FileNodeLists ==
    { <<>>,
      <<DocNode("A", FALSE)>>,
      <<DocNode("A", FALSE), [DocNode("B", TRUE) EXCEPT !.inputs = <<1, 2>>]>>,
      <<DocNode("A", FALSE), DocNode("A", TRUE)>>,
      <<DocNode("A", FALSE), DocNode("B", FALSE), DocNode("A", TRUE)>>,
      <<DocNode("A", FALSE), DocNode("A", FALSE), DocNode("A", TRUE)>> }

\* the link records of a file: with or without an id, between the ids of
\* node records or an id that no record has
MaxFileLinks == 2
FileLinks ==
    { DocLink(i, st[1], st[2]) :
        i \in {NoLinkId, 1, 2}, st \in {"A", "B", "Z"} \X {"A", "B", "Z"} }
FileLinkLists == UNION { [1..k -> FileLinks] : k \in 0..MaxFileLinks }

FileDocs ==
    { [nodes |-> ns, links |-> ls] : ns \in FileNodeLists, ls \in FileLinkLists }

\* a window with a file chosen in the "Load Graph" dialog
LoadInit ==
    /\ SchedInit
    /\ CmdManagerInit
    /\ max_stack_size = DefaultMaxStackSize
    /\ SettingsInit
    /\ TabInit
    /\ nodes = <<>>
    /\ links = <<>>
    /\ nextLink = 1
    /\ nextObj = 1
    /\ file_data \in FileDocs

\* AntiGravityWindow.load_graph: self.graph = Graph.from_dict(data), the
\* first load of the window
LoadGraph ==
    /\ nextObj = 1
    /\ LET L == from_dict(file_data, DocLinkTop(file_data), nextObj)
       IN  /\ nodes' = L.graph.nodes
           /\ links' = L.graph.links
           /\ nextLink' = L.nextLink
           /\ nextObj' = L.nextObj
    /\ UNCHANGED <<schedVars, undo_stack, redo_stack, max_stack_size, heap,
                   executed, appVars, tabVars>>

LoadNext == LoadGraph

LoadSpec == LoadInit /\ [][LoadNext]_vars

\* ------------------------------------------------------------------------
\* Provider and model of a node
\* ------------------------------------------------------------------------
\* the providers of the settings dialog's "default provider" box
ProviderNames == {"Ollama", "OpenAI", "Gemini", "OpenRouter"}

\* config.provider as a file gives it: a provider, "Default", or null ("")
FileProviders == ProviderNames \cup {"Default", ""}

\* model names: none, one for each prefix that is looked for, and two that
\* start with none of them
ModelNames == { <<>>, Gpt4o, O1, Gemini, Openrouter, Llama3, <<"g", "p">> }

\* a file with the one node A
ProviderDoc(provider, model) ==
    [nodes |-> <<[DocNode("A", FALSE) EXCEPT
                    !.config = [NewNodeConfig EXCEPT !.provider = provider,
                                                     !.model = model]]>>,
     links |-> <<>>]

ProviderDocs ==
    { ProviderDoc(p, m) : p \in FileProviders, m \in ModelNames }

\* the settings file read at start, with or without a default provider, and
\* a tab opened on a file
ProviderInit ==
    /\ SchedInit
    /\ CmdManagerInit
    /\ max_stack_size = DefaultMaxStackSize
    /\ TabInit
    /\ settings \in {<<>>} \cup { "default_provider" :> p : p \in ProviderNames }
    /\ \E data \in ProviderDocs :
          LET L == from_dict(data, DocLinkTop(data), 1)
          IN  /\ file_data = data
              /\ nodes = L.graph.nodes
              /\ links = L.graph.links
              /\ nextLink = L.nextLink
              /\ nextObj = L.nextObj

\* NodeSettingsDialog accepted: "Default" comes with an empty model box,
\* another provider with the model typed or picked
NodeSettings(node_id, selected_provider, selected_model) ==
    /\ node_id \in DOMAIN nodes
    /\ \/ selected_provider = "Default" /\ selected_model = <<>>
       \/ selected_provider \in ProviderNames
    /\ CommitGraph(NodeItem_settings_accepted(GraphState, node_id,
                                              selected_provider, selected_model))
    /\ UNCHANGED <<nextLink, schedVars, cmdVars, appVars, tabVars>>

\* SettingsDialog.save_to_disk: settings.setValue("default_provider", ...)
SaveSettings(provider) ==
    /\ settings' = MapSet(settings, "default_provider", provider)
    /\ UNCHANGED <<file_data, graphVars, schedVars, cmdVars, tabVars>>

ProviderNext ==
    \/ \E n \in NodeIds, p \in ProviderNames \cup {"Default"}, m \in ModelNames :
          NodeSettings(n, p, m)
    \/ \E p \in ProviderNames : SaveSettings(p)

ProviderSpec == ProviderInit /\ [][ProviderNext]_vars

\* ------------------------------------------------------------------------
\* Tab steps
\* ------------------------------------------------------------------------
\* tabs created in one run
MaxTabs == 3

CommitTabs(T) ==
    /\ tabs' = T.tabs
    /\ active_tab_id' = T.active_tab_id

CreateTab ==
    /\ nextTab <= MaxTabs
    /\ CommitTabs(create_tab(TabState, nextTab))
    /\ nextTab' = nextTab + 1
    /\ UNCHANGED <<graphVars, schedVars, cmdVars, appVars>>

\* tab_id may be the id of a tab that was closed or never created
SetActiveTab(tab_id) ==
    /\ CommitTabs(set_active_tab(TabState, tab_id))
    /\ UNCHANGED <<nextTab, graphVars, schedVars, cmdVars, appVars>>

CloseTab(tab_id, force) ==
    /\ CommitTabs(close_tab(TabState, tab_id, force))
    /\ UNCHANGED <<nextTab, graphVars, schedVars, cmdVars, appVars>>

MarkTabDirty(tab_id) ==
    /\ CommitTabs(mark_tab_dirty(TabState, tab_id))
    /\ UNCHANGED <<nextTab, graphVars, schedVars, cmdVars, appVars>>

TabNext ==
    \/ CreateTab
    \/ \E t \in 1..MaxTabs : SetActiveTab(t)
    \/ \E t \in 1..MaxTabs, force \in BOOLEAN : CloseTab(t, force)
    \/ \E t \in 1..MaxTabs : MarkTabDirty(t)

TabSpec == Init /\ [][TabNext]_vars

\* ------------------------------------------------------------------------
\* What each handler of the manager would do in the current state
\* ------------------------------------------------------------------------
Delivered(sig) == [SchedState EXCEPT !.signals = @ \ {sig}]

FinishedSignals == { sig \in signals : sig.kind = "finished" }
ErrorSignals == { sig \in signals : sig.kind = "error" }

FinishedResults(sig) ==
    { on_worker_finished(Delivered(sig), sig.node_id, outcome) :
        outcome \in JoinOutcomes(sig.node_id) }

ErrorResults(sig) ==
    { on_worker_error(Delivered(sig), sig.node_id, outcome) :
        outcome \in JoinOutcomes(sig.node_id) }

ShutdownResults ==
    { shutdown(SchedState, errs) : errs \in SUBSET ActiveRunning }

HandlerResults ==
    UNION { { submit_task(SchedState, n, c, nextTicket) : c \in ConfigsOf(n) } :
            n \in NodeIds }
    \cup { cancel_task(SchedState, n) : n \in NodeIds }
    \cup UNION { FinishedResults(sig) : sig \in FinishedSignals }
    \cup UNION { ErrorResults(sig) : sig \in ErrorSignals }
    \cup ShutdownResults

\* the providers whose slot is held by a worker of node n
ActiveProviders(n) ==
    { p \in ProviderKeys :
        /\ active_workers[p] # NoWorker
        /\ workers[active_workers[p]].node_id = n }

\* the (provider, position) places at which node n is queued
QueuedPlaces(n) ==
    { pi \in ProviderKeys \X (1..MaxTasks + 1) :
        /\ pi[2] <= Len(queues[pi[1]])
        /\ queues[pi[1]][pi[2]].node_id = n }

\* the workers the manager counts as running
TrackedWorkers ==
    ({ active_workers[p] : p \in ProviderKeys }
        \cup { worker_map[n] : n \in NodeIds }) \ {NoWorker}

\* ------------------------------------------------------------------------
\* Claims
\* ------------------------------------------------------------------------

\* C1: in every reachable state each provider key has at most one running
\* task: the workers the manager tracks have pairwise different providers,
\* a provider's active worker was started for that provider, and every
\* worker_map entry is the worker of its node and the active worker of
\* exactly one provider.
C1_OneRunningPerProvider ==
    /\ \A w1 \in TrackedWorkers, w2 \in TrackedWorkers :
          workers[w1].provider = workers[w2].provider => w1 = w2
    /\ \A p \in ProviderKeys :
          active_workers[p] # NoWorker =>
             /\ workers[active_workers[p]].provider = p
             /\ worker_map[workers[active_workers[p]].node_id] = active_workers[p]
    /\ \A n \in NodeIds :
          worker_map[n] # NoWorker =>
             /\ workers[worker_map[n]].node_id = n
             /\ Cardinality({ p \in ProviderKeys :
                                active_workers[p] = worker_map[n] }) = 1

\* two providers busy at once, one of them with a task waiting behind it
C1_Witness ==
    /\ \A p \in ProviderKeys : active_workers[p] # NoWorker
    /\ \E p \in ProviderKeys : queues[p] # <<>>

\* C2: a node id occurs at most once over the active workers and all queues,
\* and submit_task for a node that is running or queued changes nothing and
\* emits nothing.
C2_NodeTrackedOnce ==
    /\ \A n \in NodeIds :
          Cardinality(ActiveProviders(n)) + Cardinality(QueuedPlaces(n)) <= 1
    /\ \A n \in NodeIds : \A c \in ConfigsOf(n) :
          (ActiveProviders(n) # {} \/ QueuedPlaces(n) # {}) =>
             submit_task(SchedState, n, c, nextTicket) = SchedState

\* a node running, another queued, and so two submits that are duplicates
C2_Witness ==
    /\ \E n \in NodeIds : ActiveProviders(n) # {}
    /\ \E n \in NodeIds : QueuedPlaces(n) # {}

\* the tickets a handler result R starts
NewlyStarted(R) == DOMAIN R.workers \ DOMAIN workers

\* C3: whenever a handler starts a task Y, no task X of the same provider
\* that was accepted before Y is still waiting: X was started before Y
\* unless it was taken from the queue by cancel_task (or dropped by
\* shutdown).  Cancelling a queued task leaves the others' order as it was.
C3_FifoPerProvider ==
    /\ \A R \in HandlerResults :
          \A y \in NewlyStarted(R), x \in R.waiting :
             x.provider = R.workers[y].provider => y < x.ticket
    /\ \A n \in NodeIds :
          ActiveProviders(n) = {} =>
             \A p \in ProviderKeys :
                cancel_task(SchedState, n).queues[p] =
                   SelectSeq(queues[p], LAMBDA e : e.node_id # n)

\* a handler starts a task from a queue in which a later task still waits
C3_Witness ==
    \E R \in HandlerResults :
       \E y \in NewlyStarted(R), x \in R.waiting :
          /\ x.provider = R.workers[y].provider
          /\ \E t \in waiting : t.ticket = y


\* the entry submit_task appends for an accepted task
QueueEntry(n, c) == [node_id |-> n, config |-> c, ticket |-> nextTicket]

\* a worker object as start_worker creates it
FreshWorker(w, n, p) ==
    /\ w.node_id = n
    /\ w.provider = p
    /\ ~w.is_cancelled
    /\ w.state = "running"

\* C4: submit_task of a node that is neither running nor queued, for a
\* provider without active worker, starts the task in that step
\* (task_started emitted, no task_queued, queues untouched); for a provider
\* with an active worker it appends the task to the tail of the provider's
\* queue and emits task_queued only, starting nothing.
C4_SubmitStartsOrQueues ==
    \A n \in NodeIds : \A c \in ConfigsOf(n) :
       (ActiveProviders(n) = {} /\ QueuedPlaces(n) = {}) =>
          LET R == submit_task(SchedState, n, c, nextTicket)
              p == c.provider
          IN  IF active_workers[p] = NoWorker
              THEN /\ R.emitted = <<Signal("task_started", n)>>
                   /\ R.queues = queues
                   /\ R.active_workers =
                         [active_workers EXCEPT ![p] = nextTicket]
                   /\ R.worker_map = [worker_map EXCEPT ![n] = nextTicket]
                   /\ FreshWorker(R.workers[nextTicket], n, p)
              ELSE /\ R.emitted = <<Signal("task_queued", n)>>
                   /\ R.queues =
                         [queues EXCEPT ![p] = Append(@, QueueEntry(n, c))]
                   /\ R.active_workers = active_workers
                   /\ R.worker_map = worker_map
                   /\ R.workers = workers

\* submit(A), submit(B) on one provider: A is running and B is queued
C4_Witness ==
    /\ active_workers["Ollama"] # NoWorker
    /\ workers[active_workers["Ollama"]].node_id = "A"
    /\ workers[active_workers["Ollama"]].state = "running"
    /\ Len(queues["Ollama"]) = 1
    /\ queues["Ollama"][1].node_id = "B"
    /\ nextTicket = 3

\* what a released slot of provider p must look like in result R
Drained(R, p) ==
    IF queues[p] # <<>>
    THEN /\ R.queues[p] = Tail(queues[p])
         /\ R.active_workers[p] = Head(queues[p]).ticket
         /\ R.worker_map[Head(queues[p]).node_id] = Head(queues[p]).ticket
         /\ FreshWorker(R.workers[Head(queues[p]).ticket],
                        Head(queues[p]).node_id, p)
         /\ Signal("task_started", Head(queues[p]).node_id)
               \in SeqElems(R.emitted)
    ELSE /\ R.queues[p] = <<>>
         /\ R.active_workers[p] = NoWorker

C6_ShutdownLeavesNothing ==
    \A R \in ShutdownResults :
       /\ \A p \in ProviderKeys :
             R.active_workers[p] = NoWorker /\ R.queues[p] = <<>>
       /\ \A n \in NodeIds :
             R.worker_map[n] = NoWorker /\ ~is_node_running_or_queued(R, n)

\* C7: a finished callback of a worker that was cancelled emits no
\* task_finished and changes no slot, no worker_map entry and no queue,
\* also when its node was submitted again in between.
C7_LateFinishedDiscarded ==
    \A sig \in FinishedSignals :
       workers[sig.w].is_cancelled =>
          \A R \in FinishedResults(sig) :
             /\ R.emitted = <<>>
             /\ R.active_workers = active_workers
             /\ R.worker_map = worker_map
             /\ R.queues = queues

\* C8: an error callback of a worker that cancel_task cancelled emits no
\* task_failed and changes no slot, no worker_map entry and no queue.
C8_LateErrorDiscarded ==
    \A sig \in ErrorSignals :
       (/\ workers[sig.w].is_cancelled
        /\ \A p \in ProviderKeys : active_workers[p] # sig.w) =>
          \A R \in ErrorResults(sig) :
             /\ R.emitted = <<>>
             /\ R.active_workers = active_workers
             /\ R.worker_map = worker_map
             /\ R.queues = queues

\* the backend a worker's request goes to
EffectiveProvider(w) ==
    resolve_effective_provider(workers[w].config.provider,
                               workers[w].config.model)

\* C9: two tasks whose configurations resolve to the same effective
\* provider are never running at the same time.
C9_OneRunningPerEffectiveProvider ==
    \A p1 \in ProviderKeys, p2 \in ProviderKeys :
       (/\ active_workers[p1] # NoWorker
        /\ active_workers[p2] # NoWorker
        /\ EffectiveProvider(active_workers[p1])
              = EffectiveProvider(active_workers[p2])) => p1 = p2


\* ------------------------------------------------------------------------
\* Claims about the graph store (GraphSpec)
\* ------------------------------------------------------------------------
\* the nodes reachable from the nodes of `seen` along links source -> target
RECURSIVE ReachableFrom(_)
ReachableFrom(seen) ==
    LET more == { links[i].target_id : i \in { j \in 1..Len(links) :
                                                 links[j].source_id \in seen } }
    IN  IF more \subseteq seen THEN seen ELSE ReachableFrom(seen \cup more)

\* C10: after mark_dirty(N), N and every node reachable from N along links
\* is dirty, whatever the flags were before the call.
C10_MarkDirtyReachesAll ==
    \A n \in DOMAIN nodes :
       \A m \in ReachableFrom({n}) \cap DOMAIN nodes :
          mark_dirty(GraphState, n).nodes[m].is_dirty

\* ------------------------------------------------------------------------
\* Claims about commands, the command manager and merging (CmdSpec, StackSpec)
\* ------------------------------------------------------------------------
\* C11: in every state reached by loading a document, executing, undoing and
\* redoing commands and merging documents, every link has a target node that
\* is present in the graph and lists the link's id among its input_links.
C11_LinkTargetsListed ==
    \A i \in 1..Len(links) :
       /\ links[i].target_id \in DOMAIN nodes
       /\ links[i].id \in SeqElems(nodes[links[i].target_id].input_links)

\* two graphs hold the same nodes with the same prompt, cached_output, name,
\* position, is_dirty flag and input_links order, and the same links
SameGraph(G1, G2) ==
    /\ DOMAIN G1.nodes = DOMAIN G2.nodes
    /\ \A n \in DOMAIN G1.nodes :
          /\ G1.nodes[n].prompt = G2.nodes[n].prompt
          /\ G1.nodes[n].cached_output = G2.nodes[n].cached_output
          /\ G1.nodes[n].name = G2.nodes[n].name
          /\ G1.nodes[n].pos_x = G2.nodes[n].pos_x
          /\ G1.nodes[n].pos_y = G2.nodes[n].pos_y
          /\ G1.nodes[n].is_dirty = G2.nodes[n].is_dirty
          /\ G1.nodes[n].input_links = G2.nodes[n].input_links
    /\ SeqElems(G1.links) = SeqElems(G2.links)

\* the commands the entry points would build in the current state
CurrentRequests == Requests(CmdState, nextObj, nextLink)

\* the manager right after execute(req.cmd) in the current state
Executed(req) == CommandManager_execute(CmdState, req.cmd, req.fresh)

\* C12: for every command the entry points can build in a reachable state,
\* execute(cmd) immediately followed by undo() leaves the graph as it was
\* before execute: the same nodes and links, the same prompt, cached_output,
\* name, position and is_dirty flag and the same input_links order on every
\* node.
C12_ExecuteUndoRestoresGraph ==
    \A req \in CurrentRequests :
       SameGraph(GraphOf(CommandManager_undo(Executed(req))), GraphState)

\* how often x occurs in the list s
Occurrences(s, x) == Cardinality({ i \in 1..Len(s) : s[i] = x })

\* the DeleteNodes commands delete_selection / delete_node would build now
DeleteRequests ==
    { DeleteSelectionRequest(GraphState, sel) : sel \in Selections(GraphState) }

\* C13: a DeleteNodes command built with every link that touches the deleted
\* nodes, executed and then undone, restores exactly the prior set of nodes
\* and the prior set of links (ids, source, target), and every restored
\* link's id is exactly once in its target's input_links.
C13_DeleteUndoRestoresNodesAndLinks ==
    \A req \in DeleteRequests :
       LET R == GraphOf(Command_undo(Command_execute(CmdState, req.cmd),
                                     req.cmd))
       IN  /\ DOMAIN R.nodes = DOMAIN nodes
           /\ SeqElems(R.links) = SeqElems(links)
           /\ \A link \in SeqElems(req.cmd.links) :
                 /\ link.target_id \in DOMAIN R.nodes
                 /\ Occurrences(R.nodes[link.target_id].input_links,
                                link.id) = 1

\* a DeleteNodes command that took links with it has been executed and
\* undone: its nodes and links are back in the graph
C13_Witness ==
    /\ redo_stack # <<>>
    /\ LET cmd == redo_stack[Len(redo_stack)]
       IN  /\ cmd.type = "DeleteNodes"
           /\ cmd.links # <<>>
           /\ \A i \in 1..Len(cmd.nodes) : cmd.nodes[i].id \in DOMAIN nodes
           /\ SeqElems(cmd.links) \subseteq SeqElems(links)

\* C14: for every command the entry points can build in a reachable state,
\* execute(cmd); undo(); redo() leaves the graph as it was right after
\* execute(cmd) (nodes, links, field values, is_dirty flags, input_links
\* order) and leaves both stacks as they were right after execute(cmd).
C14_UndoRedoReproducesExecute ==
    \A req \in CurrentRequests :
       LET E == Executed(req)
           R == CommandManager_redo(CommandManager_undo(E))
       IN  /\ SameGraph(GraphOf(R), GraphOf(E))
           /\ R.undo_stack = E.undo_stack
           /\ R.redo_stack = E.redo_stack

\* C15 as stated: after execute(cmd) from any state, cmd is on top of the
\* undo stack and the redo stack is empty.
C15_ExecutePushesAndClearsRedo ==
    \A req \in CurrentRequests :
       LET E == Executed(req)
       IN  /\ E.redo_stack = <<>>
           /\ E.undo_stack # <<>>
           /\ E.undo_stack[Len(E.undo_stack)] = req.cmd

\* C15, amended: after execute(cmd) from any state the redo stack is empty,
\* and cmd is on top of the undo stack whenever max_stack_size is at least 1.
C15_ExecuteClearsRedo ==
    \A req \in CurrentRequests :
       LET E == Executed(req)
       IN  /\ E.redo_stack = <<>>
           /\ max_stack_size >= 1 =>
                 /\ E.undo_stack # <<>>
                 /\ E.undo_stack[Len(E.undo_stack)] = req.cmd

\* a second command has been executed after an undo left a redo trail: the
\* undo stack holds one command of the two and nothing can be redone
C15_Witness ==
    /\ executed = 2
    /\ max_stack_size = MaxStackSize
    /\ Len(undo_stack) = 1
    /\ redo_stack = <<>>

\* C16: in every state reached by execute, undo, redo, clear and
\* set_max_stack_size the undo stack holds at most max_stack_size commands,
\* and an execute that would exceed the capacity evicts exactly the oldest
\* entry, the remaining entries keeping their order.
C16_UndoStackBounded ==
    /\ Len(undo_stack) <= max_stack_size
    /\ \A req \in CurrentRequests :
          Len(undo_stack) + 1 > max_stack_size =>
             Executed(req).undo_stack = Tail(Append(undo_stack, req.cmd))

\* node ids a command may refer to: ids of documents and generated ids
KnownIds == {"A", "B", "C"} \cup { Uuid(o) : o \in 1..MaxObjs }
MissingIds == KnownIds \ DOMAIN nodes

\* edit, rename and move commands made for a node that is not in the graph
MissingNodeEdits ==
    UNION { { [type |-> "EditPrompt", node_id |-> n,
               old_text |-> <<>>, new_text |-> <<"p">>],
              [type |-> "EditOutput", node_id |-> n,
               old_text |-> <<>>, new_text |-> <<"p">>],
              [type |-> "RenameNode", node_id |-> n,
               old_name |-> <<>>, new_name |-> <<"N">>],
              [type |-> "MoveNodes", move_data |-> <<<<n, 0, 0, 10, 20>>>>] } :
            n \in MissingIds }

\* links, not in the graph, with a source or a target that is not in the graph
MissingEndLinks ==
    { [id |-> nextLink, source_id |-> st[1], target_id |-> st[2]] :
        st \in { q \in KnownIds \X KnownIds :
                    q[1] \in MissingIds \/ q[2] \in MissingIds } }

Unchanged(C) == C.nodes = nodes /\ C.links = links

\* C17: executing or undoing a command whose node is absent from the graph
\* (EditPrompt, EditOutput, Rename, Move on a missing node; AddLink.execute
\* or DeleteLink.undo with a missing source or target) leaves graph.nodes,
\* graph.links and every node's fields unchanged.
C17_MissingNodeIsNoOp ==
    /\ \A cmd \in MissingNodeEdits :
          /\ Unchanged(Command_execute(CmdState, cmd))
          /\ Unchanged(Command_undo(CmdState, cmd))
    /\ \A link \in MissingEndLinks :
          /\ Unchanged(Command_execute(CmdState, [type |-> "AddLink",
                                                  link |-> link]))
          /\ Unchanged(Command_undo(CmdState, [type |-> "DeleteLink",
                                               link |-> link]))

\* ------------------------------------------------------------------------
\* Claims about the assembler (AsmSpec)
\* ------------------------------------------------------------------------
EndsWith(text, tail) ==
    /\ Len(tail) <= Len(text)
    /\ SubSeq(text, Len(text) - Len(tail) + 1, Len(text)) = tail

\* C18: for every node the text assemble returns ends with the complete
\* resolved prompt, and when the prompt's estimated tokens (len / 4) alone
\* reach or exceed max_tokens the result is exactly the resolved prompt.
C18_PromptNeverTruncated ==
    \A n \in DOMAIN nodes :
       LET prompt == final_prompt(GraphState, n)
           result == assemble(GraphState, n)
       IN  /\ EndsWith(result, prompt)
           /\ Len(prompt) >= 4 * nodes[n].config.max_tokens => result = prompt

\* a node with a history, a limit of at least one token and a resolved
\* prompt that alone exceeds it
C18_Witness ==
    \E n \in DOMAIN nodes :
       /\ context_block(GraphState, n) # <<>>
       /\ nodes[n].config.max_tokens >= 1
       /\ Len(final_prompt(GraphState, n)) > 4 * nodes[n].config.max_tokens
       /\ final_prompt(GraphState, n) # nodes[n].prompt

\* a node whose history is cut to make room for its prompt
C18_TruncationReached ==
    \E n \in DOMAIN nodes :
       LET limit4 == 4 * nodes[n].config.max_tokens
           prompt == final_prompt(GraphState, n)
       IN  /\ Len(prompt) < limit4
           /\ Len(prompt) + Len(context_block(GraphState, n)) > limit4

\* ------------------------------------------------------------------------
\* Claims about merging (CmdSpec)
\* ------------------------------------------------------------------------
\* the documents that can be merged into the current graph
MergeableDocs ==
    { data \in MergeDocs :
        /\ nextObj + Len(data.nodes) - 1 <= MaxObjs
        /\ nextLink + Len(data.links) - 1 <= MaxCmdLinks }

\* the graph after merge_graph(data, filename) in the current state
Merged(data) ==
    merge_graph(GraphOf(CmdState), data, MergeFilename, nextLink, nextObj).graph

\* C19: merge_graph never overwrites or loses a node: merging a document of
\* k node records into a graph of n nodes gives a graph of n + k nodes, the
\* nodes that were there still being there, whether the incoming ids collide
\* with ids of the graph or with each other.
C19_MergeKeepsEveryNode ==
    \A data \in MergeableDocs :
       LET R == Merged(data)
       IN  /\ Cardinality(DOMAIN R.nodes)
                = Cardinality(DOMAIN nodes) + Len(data.nodes)
           /\ \A n \in DOMAIN nodes :
                 n \in DOMAIN R.nodes /\ R.nodes[n].obj = nodes[n].obj

\* the links of graph G that start or end at node n
LinksOf(G, n) ==
    { l \in SeqElems(G.links) : l.source_id = n \/ l.target_id = n }

\* C20: merge_graph changes no dirty flag: every merged node has the
\* is_dirty value of its record, also when a merged link targets it, and
\* every node that was in the graph keeps its is_dirty, its input_links and
\* its links.
C20_MergeKeepsDirtyFlags ==
    \A data \in MergeableDocs :
       LET R == Merged(data)
       IN  /\ \A n \in DOMAIN R.nodes :
                 R.nodes[n].obj >= nextObj =>
                    R.nodes[n].is_dirty
                       = data.nodes[R.nodes[n].obj - nextObj + 1].is_dirty
           /\ \A n \in DOMAIN nodes :
                 /\ n \in DOMAIN R.nodes
                 /\ R.nodes[n].is_dirty = nodes[n].is_dirty
                 /\ R.nodes[n].input_links = nodes[n].input_links
                 /\ LinksOf(R, n) = LinksOf(GraphState, n)

\* a document has been merged into a loaded graph, no command having run:
\* a clean merged node is the target of a merged link
C20_Witness ==
    /\ executed = 0
    /\ \E i \in 1..Len(links) :
          /\ links[i].target_id \in DOMAIN nodes
          /\ nodes[links[i].target_id].obj >= 4
          /\ ~nodes[links[i].target_id].is_dirty
          /\ \E n \in DOMAIN nodes : nodes[n].obj = 1

\* ------------------------------------------------------------------------
\* C21
\* ------------------------------------------------------------------------
\* the graph Graph.from_dict makes of the chosen file
LoadedGraph == from_dict(file_data, DocLinkTop(file_data), 1).graph

RecordIds == { file_data.nodes[i].id : i \in 1..Len(file_data.nodes) }

\* the link records whose source and target are ids of node records
KeptRecords ==
    { i \in 1..Len(file_data.links) :
        /\ file_data.links[i].source \in RecordIds
        /\ file_data.links[i].target \in RecordIds }

\* C21: for any serialized document, Graph.from_dict yields one node per node
\* record (under pairwise distinct ids), links with pairwise distinct ids
\* whose source and target are nodes of the graph, one link for each record
\* whose ends are node records and none for the others, and each link's id
\* exactly once in the input_links of its target.
C21_FromDictWellFormed ==
    LET G == LoadedGraph
    IN  /\ Cardinality(DOMAIN G.nodes) = Len(file_data.nodes)
        /\ \A i, j \in 1..Len(G.links) :
              i # j => G.links[i].id # G.links[j].id
        /\ \A i \in 1..Len(G.links) :
              /\ G.links[i].source_id \in DOMAIN G.nodes
              /\ G.links[i].target_id \in DOMAIN G.nodes
              /\ Occurrences(G.nodes[G.links[i].target_id].input_links,
                             G.links[i].id) = 1
        /\ Len(G.links) = Cardinality(KeptRecords)

\* a file with a node id that occurs twice, two link records under one id
\* and a link record to a missing node has been loaded
C21_Witness ==
    /\ nodes = LoadedGraph.nodes
    /\ links = LoadedGraph.links
    /\ Cardinality(RecordIds) < Len(file_data.nodes)
    /\ Len(file_data.links) = 2
    /\ Cardinality(KeptRecords) = 1
    /\ file_data.links[1].id = file_data.links[2].id
    /\ Len(links) = 1

\* ------------------------------------------------------------------------
\* C22
\* ------------------------------------------------------------------------
\* the graph read back from the saved graph
RoundTrip(G) ==
    from_dict(to_dict(G), 1 + SetMax({0} \cup LinkIds(G.links)), nextObj).graph

\* C22: in every graph reachable by graph operations and command execute,
\* undo and redo, from_dict(to_dict(g)) has the same node ids, the same
\* links (ids and endpoints) and the same field values on every node,
\* including the order of each node's input_links.
C22_SaveLoadRoundTrip ==
    LET R == RoundTrip(GraphState)
    IN  /\ SameGraph(R, GraphState)
        /\ \A n \in DOMAIN nodes :
              /\ R.nodes[n].config = nodes[n].config
              /\ R.nodes[n].height = nodes[n].height

\* ------------------------------------------------------------------------
\* C23, C24
\* ------------------------------------------------------------------------
\* settings.value("default_provider", "Ollama"): the global default provider
GlobalDefaultProvider ==
    IF "default_provider" \in DOMAIN settings THEN settings["default_provider"]
    ELSE "Ollama"

\* C23: resolve_effective_provider(provider, model) is the provider itself
\* when it is a concrete one; for "Default" or a missing provider it is
\* OpenAI for a model that starts with gpt or o1, Gemini for gemini,
\* OpenRouter for openrouter, Ollama for any other model that is not empty,
\* and the global default provider for an empty model.
C23_ResolveEffectiveProvider ==
    \A n \in DOMAIN nodes :
       LET provider == nodes[n].config.provider
           model == nodes[n].config.model
           resolved == resolve_effective_provider(provider, model)
       IN  IF provider \notin {"Default", ""} THEN resolved = provider
           ELSE IF model = <<>> THEN resolved = GlobalDefaultProvider
           ELSE IF StartsWith(model, Gpt) \/ StartsWith(model, O1)
                THEN resolved = "OpenAI"
           ELSE IF StartsWith(model, Gemini) THEN resolved = "Gemini"
           ELSE IF StartsWith(model, Openrouter) THEN resolved = "OpenRouter"
           ELSE resolved = "Ollama"

\* a node that a file gave an openrouter model, set to "Default" in its
\* settings dialog, under a global default provider saved as Gemini
C23_Witness ==
    /\ "A" \in DOMAIN nodes
    /\ StartsWith(file_data.nodes[1].config.model, Openrouter)
    /\ file_data.nodes[1].config.provider = ""
    /\ nodes["A"].config.provider = "Default"
    /\ nodes["A"].config.model = <<>>
    /\ nodes["A"].is_dirty
    /\ GlobalDefaultProvider = "Gemini"

\* C24: for every node configuration and global default provider, the
\* backend the worker sends the request to, the provider the node item
\* checks the status of and the provider part of resolve_display_text are
\* the value of resolve_effective_provider for the configuration.
C24_OneProviderEverywhere ==
    \A n \in DOMAIN nodes :
       LET config == on_run_clicked_config(GraphState, n)
           resolved == resolve_effective_provider(config.provider, config.model)
       IN  /\ LLMWorker_async_run(config) = resolved
           /\ NodeItem_resolve_effective_provider(nodes[n].config) = resolved
           /\ resolve_display_text(config.provider, config.model)[1] = resolved

\* ------------------------------------------------------------------------
\* C25
\* ------------------------------------------------------------------------
\* C25: after any sequence of create_tab, set_active_tab and close_tab the
\* active tab id is unset or the id of an existing tab, at most one existing
\* tab has is_active = true, namely that tab, and closing the active tab
\* while other tabs remain makes one of the remaining tabs active.
C25_ActiveTabConsistent ==
    /\ active_tab_id = NoTab \/ active_tab_id \in TabIds(tabs)
    /\ Cardinality({ i \in 1..Len(tabs) : tabs[i].is_active }) <= 1
    /\ \A i \in 1..Len(tabs) :
          tabs[i].is_active <=> tabs[i].tab_id = active_tab_id
    /\ \A t \in TabIds(tabs), force \in BOOLEAN :
          LET R == close_tab(TabState, t, force)
          IN  (t = active_tab_id /\ t \notin TabIds(R.tabs) /\ R.tabs # <<>>)
              => /\ R.active_tab_id \in TabIds(R.tabs)
                 /\ \E i \in 1..Len(R.tabs) :
                       /\ R.tabs[i].tab_id = R.active_tab_id
                       /\ R.tabs[i].is_active

\* three tabs were created, the first one was active and has been closed:
\* the second is the active one, the third has unsaved changes
C25_Witness ==
    /\ nextTab = 4
    /\ Len(tabs) = 2
    /\ tabs[1].tab_id = 2
    /\ tabs[1].is_active
    /\ active_tab_id = 2
    /\ tabs[2].is_dirty
    /\ ~tabs[2].is_active

\* ------------------------------------------------------------------------
\* C26: cancel_task on a node that is queued and not running removes exactly
\* that node's entry: the remaining entries of that queue keep their order,
\* every other queue, active_workers and worker_map are unchanged and none of
\* task_started, task_finished, task_failed, task_queued is emitted;
\* cancel_task on a node neither running nor queued changes nothing.
\* ------------------------------------------------------------------------
NodeRunning(node_id) ==
    \E p \in ProviderKeys :
        /\ active_workers[p] # NoWorker
        /\ workers[active_workers[p]].node_id = node_id

NodeQueuedIn(node_id) ==
    { p \in ProviderKeys : node_id \in QueueNodeIds(queues[p]) }

WithoutNode(q, node_id) == SelectSeq(q, LAMBDA item : item.node_id # node_id)

C26_CancelQueuedRemovesOnlyThatEntry ==
    \A node_id \in NodeIds :
        LET R == cancel_task(SchedState, node_id)
        IN  ~NodeRunning(node_id) =>
              /\ R.active_workers = active_workers
              /\ R.worker_map = worker_map
              /\ R.workers = workers
              /\ R.emitted = <<>>
              /\ R.signals = signals
              /\ IF NodeQueuedIn(node_id) = {}
                 THEN /\ R.queues = queues
                      /\ R.waiting = waiting
                 ELSE \E p \in NodeQueuedIn(node_id) :
                        /\ Len(R.queues[p]) = Len(queues[p]) - 1
                        /\ R.queues[p] = WithoutNode(queues[p], node_id)
                        /\ \A o \in ProviderKeys \ {p} : R.queues[o] = queues[o]

\* a node waits in the middle of a queue of three behind a running worker
C26_Witness ==
    \E p \in ProviderKeys : \E node_id \in NodeIds :
        /\ active_workers[p] # NoWorker
        /\ ~NodeRunning(node_id)
        /\ Len(queues[p]) >= 2
        /\ queues[p][2].node_id = node_id
        /\ cancel_task(SchedState, node_id).queues[p] = QueueDelete(queues[p], 2)

\* ------------------------------------------------------------------------
\* C27: every operation outside merge and load that adds a link to or
\* removes a link from the graph (Graph.add_link, Graph.remove_link, AddLink
\* and DeleteLink execute and undo, DeleteNodes execute and undo, Paste
\* execute and undo) leaves the link's target node, when it is in the graph
\* afterwards, with is_dirty = true.
\* ------------------------------------------------------------------------
\* the links that are in exactly one of the two graphs
ChangedLinks(Before, After) ==
    { l \in SeqElems(Before.links) : l.id \notin LinkIds(After.links) }
    \cup { l \in SeqElems(After.links) : l.id \notin LinkIds(Before.links) }

TargetsDirty(Before, After) ==
    \A l \in ChangedLinks(Before, After) :
        l.target_id \in DOMAIN After.nodes => After.nodes[l.target_id].is_dirty

C27_LinkChangeDirtiesTarget ==
    LET G == GraphOf(CmdState)
    IN  /\ \A st \in (DOMAIN nodes) \X (DOMAIN nodes) :
              TargetsDirty(G, add_link(G, st[1], st[2], TRUE, nextLink))
        /\ \A l \in SeqElems(links) : TargetsDirty(G, remove_link(G, l.id))
        /\ \A req \in CurrentRequests : TargetsDirty(G, GraphOf(Executed(req)))
        /\ TargetsDirty(G, GraphOf(CommandManager_undo(CmdState)))
        /\ TargetsDirty(G, GraphOf(CommandManager_redo(CmdState)))

\* ------------------------------------------------------------------------
\* C28: when a task for node N finishes and the completion handler writes
\* its result into N.cached_output, every node downstream of N (reachable
\* from N along outgoing links) is dirty afterwards, whatever the dirty flags
\* were before.  N itself, which the handler may clear, is not counted among
\* its downstream nodes.
\* ------------------------------------------------------------------------
Downstream(n) ==
    ReachableFrom({ links[i].target_id :
                      i \in { j \in 1..Len(links) : links[j].source_id = n } })
    \cap (DOMAIN nodes \ {n})

DownstreamDirty(G, n) == \A m \in Downstream(n) : G.nodes[m].is_dirty

C28_CompletionDirtiesDownstream ==
    \A n \in DOMAIN nodes : \A result \in Outputs :
        /\ DownstreamDirty(EditorTab_on_task_finished(GraphState, n, result), n)
        /\ DownstreamDirty(MainWindow_on_worker_finished(GraphState, n, result), n)

\* each handler taken alone
C28_EditorTabDirtiesDownstream ==
    \A n \in DOMAIN nodes : \A result \in Outputs :
        DownstreamDirty(EditorTab_on_task_finished(GraphState, n, result), n)

C28_MainWindowDirtiesDownstream ==
    \A n \in DOMAIN nodes : \A result \in Outputs :
        DownstreamDirty(MainWindow_on_worker_finished(GraphState, n, result), n)

\* ------------------------------------------------------------------------
\* C29: after remove_node(X), called directly or through DeleteNodes.execute,
\* AddNode.undo or Paste.undo, graph.links holds no link whose source_id or
\* target_id is X, and no node remaining in the graph has the id of a
\* removed link in its input_links.
\* ------------------------------------------------------------------------
RemovedLinkIds(Before, After) == LinkIds(Before.links) \ LinkIds(After.links)

NoLinkTouches(After, removed) ==
    \A l \in SeqElems(After.links) :
        l.source_id \notin removed /\ l.target_id \notin removed

NoDanglingInput(Before, After) ==
    \A m \in DOMAIN After.nodes :
        SeqElems(After.nodes[m].input_links) \cap RemovedLinkIds(Before, After) = {}

\* the ids a command removes through remove_node
RemovedBy(cmd) ==
    IF cmd.type = "AddNode" THEN {cmd.node.id}
    ELSE { cmd.nodes[i].id : i \in 1..Len(cmd.nodes) }

C29_LinksGoWithNode ==
    LET G == GraphOf(CmdState)
    IN  /\ \A x \in DOMAIN nodes :
              NoLinkTouches(GraphOf(Cmd_remove_node(CmdState, x)), {x})
        /\ \A req \in { r \in CurrentRequests : r.cmd.type = "DeleteNodes" } :
              NoLinkTouches(GraphOf(Executed(req)), RemovedBy(req.cmd))
        /\ \A k \in { j \in {Len(undo_stack)} :
                        /\ j > 0
                        /\ undo_stack[j].type \in {"AddNode", "PasteNodesAndLinks"} } :
              NoLinkTouches(GraphOf(CommandManager_undo(CmdState)),
                            RemovedBy(undo_stack[k]))

C29_NoDanglingInputLinks ==
    LET G == GraphOf(CmdState)
    IN  /\ \A x \in DOMAIN nodes :
              NoDanglingInput(G, GraphOf(Cmd_remove_node(CmdState, x)))
        /\ \A req \in { r \in CurrentRequests : r.cmd.type = "DeleteNodes" } :
              NoDanglingInput(G, GraphOf(Executed(req)))
        /\ \A k \in { j \in {Len(undo_stack)} :
                        /\ j > 0
                        /\ undo_stack[j].type \in {"AddNode", "PasteNodesAndLinks"} } :
              NoDanglingInput(G, GraphOf(CommandManager_undo(CmdState)))

C29_RemoveNodeLeavesNoDangling ==
    C29_LinksGoWithNode /\ C29_NoDanglingInputLinks

\* every node lists exactly the links that end in it, each once, in a list
\* object of its own
InputsMatchLinks ==
    /\ \A n \in DOMAIN nodes :
          /\ SeqElems(nodes[n].input_links) =
                { l.id : l \in { k \in SeqElems(links) : k.target_id = n } }
          /\ Cardinality(SeqElems(nodes[n].input_links)) = Len(nodes[n].input_links)
    /\ \A n, m \in DOMAIN nodes :
          n # m /\ nodes[n].input_list # OwnList
             => nodes[n].input_list # nodes[m].input_list

\* the part of C29 that does not depend on what paste left behind
C29_NoDanglingFromMatchingInputs == InputsMatchLinks => C29_NoDanglingInputLinks

\* ------------------------------------------------------------------------
\* C30: if all non-empty node names in the graph are pairwise distinct before
\* merge_graph, they are pairwise distinct after it, for any incoming data
\* (incoming names may collide with existing names and with each other) and
\* any source label.
\* ------------------------------------------------------------------------
NamesUnique(G) ==
    \A n, m \in DOMAIN G.nodes :
        n # m /\ G.nodes[n].name # <<>> => G.nodes[n].name # G.nodes[m].name

\* an incoming file whose two nodes carry the same name
SameNameDoc ==
    [nodes |-> <<[DocNode("P", FALSE) EXCEPT !.name = <<"N">>],
                 [DocNode("Q", FALSE) EXCEPT !.name = <<"N">>]>>,
     links |-> <<>>]

\* the files merge_graph may be handed in the current state
IncomingDocs ==
    MergeableDocs
    \cup { data \in {SameNameDoc} : nextObj + Len(data.nodes) - 1 <= MaxObjs }

C30_MergeKeepsNamesUnique ==
    NamesUnique(GraphOf(CmdState))
       => \A data \in IncomingDocs : NamesUnique(Merged(data))

\* incoming names that collide only with names of the graph are resolved
C30_ExistingNamesResolved ==
    NamesUnique(GraphOf(CmdState))
       => \A data \in IncomingDocs \ {SameNameDoc} : NamesUnique(Merged(data))

\* ------------------------------------------------------------------------
\* C31: mark_dirty(N) terminates on every finite graph, cycles and
\* self-loops included, and assigns the is_dirty flag of each node at most
\* once per call; a second mark_dirty(N) with nothing cleared in between
\* changes nothing.
\* ------------------------------------------------------------------------
\* the graph with an empty log of the flag assignments
Logged == [nodes |-> nodes, links |-> links, writes |-> <<>>]

\* a node that lies on a cycle of links
OnCycle(n) ==
    n \in ReachableFrom({ links[i].target_id :
                            i \in { j \in 1..Len(links) : links[j].source_id = n } })

history_text(n) == gather_history(GraphState, n, nodes[n].config.trace_depth)

implicit_context(n) ==
    Join(ImplicitParts(GraphState, n, get_input_nodes(GraphState, n),
                       FindRefs(nodes[n].prompt, 1)),
         NL \o NL)

Segments(n) ==
    SelectSeq(<<history_text(n), implicit_context(n), final_prompt(GraphState, n)>>,
              LAMBDA seg : seg # <<>>)

WithinLimit(n) ==
    Len(history_text(n)) + Len(implicit_context(n))
       + Len(final_prompt(GraphState, n)) <= 4 * nodes[n].config.max_tokens

C32_SegmentsJoinedByBlankLine ==
    \A n \in DOMAIN nodes :
        WithinLimit(n) => assemble(GraphState, n) = Join(Segments(n), NL \o NL)

\* the same for nodes that have a resolved prompt and no context at all
C32_PromptAlone ==
    \A n \in DOMAIN nodes :
        WithinLimit(n) /\ history_text(n) = <<>> /\ implicit_context(n) = <<>>
           => assemble(GraphState, n) = final_prompt(GraphState, n)

\* ------------------------------------------------------------------------
\* C33: when the estimated total exceeds max_tokens but the prompt alone does
\* not, assemble returns marker + kept + prompt, where kept is a suffix of the
\* combined history+implicit block (the oldest characters are dropped) with
\* len(kept) + len(prompt) <= 4 * max_tokens, and the marker states the
\* number of tokens dropped: the dropped characters divided by 4, rounded
\* down.
\* ------------------------------------------------------------------------
\* text[len(text) - k:], the last k characters
Suffix(text, k) == SubSeq(text, Len(text) - k + 1, Len(text))

\* the marker line, the kept tail and the prompt, each on a line of its own
MarkedResult(block, k, prompt) ==
    TruncatedBy \o IntToStr((Len(block) - k) \div 4) \o TokensDots
       \o NL \o Suffix(block, k) \o NL \o prompt

\* assemble's result is a marked cut of the node's block that fits the limit
IsMarkedCut(n) ==
    LET block == context_block(GraphState, n)
        prompt == final_prompt(GraphState, n)
    IN  \E k \in 0..Len(block) :
           /\ k + Len(prompt) <= 4 * nodes[n].config.max_tokens
           /\ assemble(GraphState, n) = MarkedResult(block, k, prompt)

OverLimit(n) ==
    Len(context_block(GraphState, n)) + Len(final_prompt(GraphState, n))
       > 4 * nodes[n].config.max_tokens

C33_TruncatedFromFrontWithMarker ==
    \A n \in DOMAIN nodes :
        /\ OverLimit(n)
        /\ Len(final_prompt(GraphState, n)) <= 4 * nodes[n].config.max_tokens
        => IsMarkedCut(n)

\* the same for prompts that leave room for at least one character
C33_BelowLimitCutWithMarker ==
    \A n \in DOMAIN nodes :
        /\ OverLimit(n)
        /\ Len(final_prompt(GraphState, n)) < 4 * nodes[n].config.max_tokens
        => IsMarkedCut(n)

\* ------------------------------------------------------------------------
\* C34: for every directly connected input node X whose id is one the system
\* generates (Node's default id), each occurrence of "@" followed by X's id
\* in the prompt is replaced by X's cached_output in the resolved prompt, and
\* an "@identifier" that names no directly connected input is left unchanged
\* as literal text.
\* ------------------------------------------------------------------------
GeneratedIds == SeqElems(UuidPool)

\* the text around a reference
Before == <<"s", "e", "e", " ">>
After == <<" ", "!">>

RefTo(node_id) == <<"@">> \o IdText(node_id)

\* the inputs of n, as sets of ids
InputsOf(n) == SeqElems(get_input_nodes(GraphOf(CmdState), n))

\* a reference to the input x in a prompt of n, once and twice
RefsResolved(n, x) ==
    LET G == GraphOf(CmdState)
        out == G.nodes[x].cached_output
    IN  /\ inject_references(G, Before \o RefTo(x) \o After, n)
              = Before \o out \o After
        /\ inject_references(G, RefTo(x) \o After \o RefTo(x), n)
              = out \o After \o out

\* a reference to something that is no input of n
RefsKept(n, ref) ==
    inject_references(GraphOf(CmdState), Before \o ref \o After, n)
       = Before \o ref \o After

UnconnectedRefs(n) ==
    { RefTo(y) : y \in (DOMAIN nodes \cup GeneratedIds) \ InputsOf(n) }
    \cup { <<"@", "Z">>, <<"@", "n", "o", "_", "1">> }

C34_UnconnectedLeftLiteral ==
    \A n \in DOMAIN nodes : \A ref \in UnconnectedRefs(n) : RefsKept(n, ref)

C34_GeneratedIdsResolved ==
    \A n \in DOMAIN nodes : \A x \in InputsOf(n) \cap GeneratedIds :
        RefsResolved(n, x)

C34_ReferencesResolved ==
    C34_GeneratedIdsResolved /\ C34_UnconnectedLeftLiteral

\* ids made of word characters only, as a hand-written file may give them
C34_WordIdsResolved ==
    \A n \in DOMAIN nodes : \A x \in InputsOf(n) \ GeneratedIds :
        RefsResolved(n, x)

\* ------------------------------------------------------------------------
\* C35: the history segment built by assemble consists of the cached_output
\* of exactly the first min(trace_depth, chain length) ancestors along the
\* primary-parent chain (the source of input_links[0] at each hop), ordered
\* oldest ancestor first and nearest parent last; it is empty when
\* trace_depth = 0 or the node has no primary parent, and the walk terminates
\* on cyclic chains.
\* ------------------------------------------------------------------------
\* the source of input_links[0], where the link and its source exist
PrimaryParent(n) ==
    IF n = NoId \/ n \notin DOMAIN nodes THEN NoId
    ELSE IF nodes[n].input_links = <<>> THEN NoId
    ELSE LET link_id == nodes[n].input_links[1]
         IN  IF link_id \notin LinkIds(links) THEN NoId
             ELSE IF LinkById(links, link_id).source_id \in DOMAIN nodes
                  THEN LinkById(links, link_id).source_id
             ELSE NoId

\* the i-th ancestor of n along the chain, n itself for i = 0
RECURSIVE Ancestor(_, _)
Ancestor(n, i) == IF i = 0 THEN n ELSE PrimaryParent(Ancestor(n, i - 1))

\* how many ancestors the chain of n has among the first depth hops
ChainHops(n, depth) ==
    Cardinality({ i \in 1..depth : Ancestor(n, i) # NoId })

\* the outputs of the first k ancestors, the k-th (oldest) first
AncestorOutputs(n, k) ==
    [i \in 1..k |-> nodes[Ancestor(n, k + 1 - i)].cached_output]

ExpectedHistory(n, depth) ==
    Join(SelectSeq(AncestorOutputs(n, ChainHops(n, depth)),
                   LAMBDA out : out # <<>>),
         NL)

C35_HistoryIsAncestorChain ==
    \A n \in DOMAIN nodes :
        /\ history_text(n) = ExpectedHistory(n, nodes[n].config.trace_depth)
        /\ \A depth \in AsmDepths :
              gather_history(GraphState, n, depth) = ExpectedHistory(n, depth)
        /\ gather_history(GraphState, n, 0) = <<>>
        /\ PrimaryParent(n) = NoId
              => \A depth \in AsmDepths : gather_history(GraphState, n, depth) = <<>>

\* a history of two different outputs taken round the cycle of A and C
C35_Witness ==
    \E n \in DOMAIN nodes :
        LET depth == nodes[n].config.trace_depth
        IN  /\ depth >= 2
            /\ Ancestor(n, 2) # NoId
            /\ \E i \in 1..3 : Ancestor(Ancestor(n, 1), i) = Ancestor(n, 1)
            /\ nodes[Ancestor(n, 1)].cached_output # <<>>
            /\ nodes[Ancestor(n, 2)].cached_output # <<>>
            /\ nodes[Ancestor(n, 1)].cached_output # nodes[Ancestor(n, 2)].cached_output
            /\ history_text(n) = nodes[Ancestor(n, 2)].cached_output \o NL
                                   \o nodes[Ancestor(n, 1)].cached_output

\* ------------------------------------------------------------------------
\* C36: the implicit-context segment contains, in input_links order and
\* separated by blank lines, the non-empty cached_output of exactly those
\* directly connected input nodes that are not referenced by an @id token in
\* the prompt and are not the primary parent when trace_depth > 0; the output
\* of an explicitly referenced input never appears in it.
\* ------------------------------------------------------------------------
\* the characters an id is written with
IdChars == WordChars \cup {"-"}

\* the prompt holds the token "@" + id of x
ReferencedIn(prompt, x) ==
    LET ref == RefTo(x)
    IN  \E i \in 1..Len(prompt) :
           /\ i + Len(ref) - 1 <= Len(prompt)
           /\ SubSeq(prompt, i, i + Len(ref) - 1) = ref
           /\ i + Len(ref) <= Len(prompt) => prompt[i + Len(ref)] \notin IdChars

\* assemble's implicit_context for node n, were its prompt `prompt`
ImplicitFor(n, prompt) ==
    Join(ImplicitParts(GraphState, n, get_input_nodes(GraphState, n),
                       FindRefs(prompt, 1)),
         NL \o NL)

\* the inputs whose output belongs to the implicit context, in input order
ImplicitInputs(n, prompt) ==
    SelectSeq(get_input_nodes(GraphState, n),
              LAMBDA x : /\ ~ReferencedIn(prompt, x)
                         /\ ~(nodes[n].config.trace_depth > 0 /\ x = PrimaryParent(n))
                         /\ nodes[x].cached_output # <<>>)

ExpectedImplicit(n, prompt) ==
    LET kept == ImplicitInputs(n, prompt)
    IN  Join([i \in 1..Len(kept) |-> nodes[kept[i]].cached_output], NL \o NL)

\* the node's own prompt and a prompt that refers to one of its inputs
PromptsFor(n) ==
    {nodes[n].prompt}
    \cup { Before \o RefTo(x) \o After : x \in SeqElems(get_input_nodes(GraphState, n)) }

C36_ImplicitContextOfUnreferencedInputs ==
    \A n \in DOMAIN nodes : \A prompt \in PromptsFor(n) :
        ImplicitFor(n, prompt) = ExpectedImplicit(n, prompt)

\* the same on graphs whose ids are written with word characters only
C36_ImplicitContextWordIds ==
    \A n \in DOMAIN nodes : \A prompt \in PromptsFor(n) :
        SeqElems(get_input_nodes(GraphState, n)) \cap GeneratedIds = {}
           => ImplicitFor(n, prompt) = ExpectedImplicit(n, prompt)

\* ------------------------------------------------------------------------
\* C37: deleting nodes via DeleteNodes and undoing it, or deleting a link via
\* DeleteLink and undoing it, leaves every node's input_links in its original
\* order, so each node's primary parent (the source of input_links[0]) is the
\* same as before the delete.
\* ------------------------------------------------------------------------
DeleteCommands ==
    { req \in CurrentRequests : req.cmd.type \in {"DeleteNodes", "DeleteLink"} }

\* the graph after execute(req.cmd) and undo()
Undone(req) == GraphOf(CommandManager_undo(Executed(req)))

SameInputOrder(G) ==
    /\ DOMAIN G.nodes = DOMAIN nodes
    /\ \A n \in DOMAIN nodes : G.nodes[n].input_links = nodes[n].input_links

C37_DeleteUndoKeepsInputOrder ==
    \A req \in DeleteCommands : SameInputOrder(Undone(req))

\* ------------------------------------------------------------------------
\* C38: in every state reachable by commands (paste or duplicate of nodes
\* that have incoming links included), undo and redo, merge and load, every
\* id in a node's input_links is the id of a link in graph.links whose
\* target_id is that node, and occurs there once, so that get_input_nodes(n)
\* returns only the sources of links that end at n.
\* ------------------------------------------------------------------------
C38_InputLinksEndAtNode ==
    \A n \in DOMAIN nodes :
        /\ \A id \in SeqElems(nodes[n].input_links) :
              /\ id \in LinkIds(links)
              /\ LinkById(links, id).target_id = n
        /\ Cardinality(SeqElems(nodes[n].input_links)) = Len(nodes[n].input_links)

\* ------------------------------------------------------------------------
\* C39: in every reachable scheduler state, a provider whose queue is
\* non-empty has an active worker: no task is ever left queued on an idle
\* provider.
\* ------------------------------------------------------------------------
C39_QueuedImpliesActive ==
    \A p \in ProviderKeys : queues[p] # <<>> => active_workers[p] # NoWorker

\* a task waits behind a worker that was started from the queue, while the
\* callback of a cancelled worker is still to arrive
C39_Witness ==
    \E p \in ProviderKeys :
        /\ queues[p] # <<>>
        /\ active_workers[p] # NoWorker
        /\ \E sig \in signals :
              /\ sig.w \in DOMAIN workers
              /\ workers[sig.w].is_cancelled
              /\ sig.w # active_workers[p]

\* ------------------------------------------------------------------------
\* The scheduler while the application keeps running: shutdown is not called,
\* every worker thread gets to the end of its run(), and the event loop of
\* the manager's thread delivers every posted signal.
\* ------------------------------------------------------------------------
LiveNext ==
    \/ \E n \in NodeIds : \E c \in ConfigsOf(n) : SubmitTask(n, c)
    \/ \E n \in NodeIds : CancelTask(n)
    \/ \E sig \in signals : OnWorkerFinished(sig)
    \/ \E sig \in signals : OnWorkerError(sig)
    \/ \E w \in DOMAIN workers : WorkerEmitFinished(w)
    \/ \E w \in DOMAIN workers : WorkerEmitError(w)
    \/ \E w \in DOMAIN workers : WorkerCancelledExit(w)

\* LLMWorker.run of worker w returns: with finished, with error, or silently
WorkerEnds(w) ==
    WorkerEmitFinished(w) \/ WorkerEmitError(w) \/ WorkerCancelledExit(w)

\* the event loop calls the slot connected to a posted signal of worker w
Delivers(w) ==
    \E sig \in signals :
        /\ sig.w = w
        /\ OnWorkerFinished(sig) \/ OnWorkerError(sig)

LiveSpec ==
    /\ Init
    /\ [][LiveNext]_vars
    /\ \A w \in 1..MaxTasks : WF_vars(WorkerEnds(w))
    /\ \A w \in 1..MaxTasks : WF_vars(Delivers(w))

\* ------------------------------------------------------------------------
\* C40
\* ------------------------------------------------------------------------
\* the task accepted with ticket k is in a provider's queue
Queued(k) ==
    \E p \in ProviderKeys :
        \E i \in 1..Len(queues[p]) : queues[p][i].ticket = k

====
